---- MODULE Spec2Model ----
(***************************************************************************)
(* Model of the Git + Git-LFS source control provider: the command queue   *)
(* of FGitLFSSourceControlProvider (Execute / IssueCommand / Tick /        *)
(* CancelOperation / ExecuteSynchronousCommand), the workers that run on   *)
(* the thread pool, and the caches they share (State Cache, Lock Cache).   *)
(***************************************************************************)
EXTENDS Integers, Sequences, FiniteSets, TLC

\* Bounds of the model.
MaxCommands == 2
MaxCallbacks == 2

\* Files are a path stem plus an extension; IsFileLFSLockable looks at the
\* end of the path only.
FileA == [stem |-> "Content/a", ext |-> ".uasset"]
FileB == [stem |-> "Config/b", ext |-> ".ini"]
AllFiles == {FileA, FileB}
LockableTypes == {".uasset"}
LockUser == "alice"

CmdIds == 1..MaxCommands
QueueFileLists == {<<>>, <<FileA>>}

VARIABLES
    GThreadPool,          \* TRUE iff the engine's thread pool exists
    bUsingGitLfsLocking,  \* provider setting, snapshotted into each command
    CommandQueue,         \* TArray<TSharedPtr<FGitLFSSourceControlCommand>>
    Commands,             \* the command objects, by submission number
    nextCommand,          \* submission number of the next command
    callbackOrder,        \* commands in the order their delegate first ran
    StateCache,           \* path -> FGitLFSState
    IgnoreForceCache,     \* paths whose next forced refresh is skipped
    LockedFiles,          \* FGitLFSLockedFilesCache::LockedFiles, path -> owner
    ReadOnly,             \* on-disk read-only attribute of each path
    syncCmd,              \* command ExecuteSynchronousCommand is spinning on, 0 if none
    syncResult,           \* value returned by each synchronous Execute
    lastTick,             \* what the call of Tick that just returned did
    bPendingRestart,      \* FGitLFSSourceControlProvider::bPendingRestart
    UnlockFilesResult,    \* the function-local static bSuccess of UnlockFiles
    checkIn,              \* what the FGitLFSCheckInWorker::Execute that ran did
    OnDisk,               \* the paths that exist in the working copy
    revert,               \* what the FGitLFSRevertWorker::Execute that ran did
    now,                  \* FDateTime::Now(), in seconds
    LastUpdated,          \* FGitLFSLockedFilesCache::LastUpdated
    LastRefresh,          \* latest CurrentTime of a call whose remote query succeeded
    lockCalls,            \* the GetAllLocks call each pool thread is in
    lastGetAllLocks,      \* what the step of GetAllLocks just taken did
    lockOp,               \* the call on the Lock Cache that just returned
    checkOut,             \* what the FGitLFSCheckOutWorker::Execute that just ran did
    sync,                 \* what the FGitLFSSyncWorker::Execute that just ran did
    connects,             \* the Connect commands, by submission number
    nextConnect,          \* submission number of the next Connect command
    gitStatus,            \* a line of 'git status --porcelain' and what parsing it gave
    view,                 \* a file's state object and what GetGitState returned for it
    batch,                \* the FGitLFSCommand::BatchRuns call in progress and its invocations
    refreshOp,            \* what the Copy or UpdateStatus worker that just ran did
    unlockOp,             \* the call of FGitLFSCommandHelpers::UnlockFiles that just returned
    runner,               \* the background runner and its refresh operations
    statusOp,             \* the state a status refresh has just built for one file
    remoteOp,             \* the call of CheckRemote that just returned
    cacheOp,              \* the last call of UpdateCachedStates or GetState and its effect
    clOp,                 \* the changelists and the last rebuild or package-saved hook
    execOp                \* bGitRepositoryFound and the last call of Provider::Execute

queueVars == <<GThreadPool, bUsingGitLfsLocking, CommandQueue, Commands, nextCommand,
               callbackOrder, StateCache, IgnoreForceCache, LockedFiles, ReadOnly,
               syncCmd, syncResult, lastTick>>

checkInVars == <<bPendingRestart, UnlockFilesResult, checkIn>>

revertVars == <<OnDisk, revert>>

lockVars == <<now, LastUpdated, LastRefresh, lockCalls, lastGetAllLocks>>

connectVars == <<connects, nextConnect>>

utilVars == <<view, batch, refreshOp, unlockOp, runner, statusOp, remoteOp, cacheOp, clOp, execOp>>

restVars == <<lockOp, checkOut, sync, connectVars, gitStatus, utilVars>>

workerVars == <<revertVars, lockVars, restVars>>

vars == <<queueVars, checkInVars, workerVars>>

----------------------------------------------------------------------------
\* Small helpers

Min(S) == CHOOSE x \in S : \A y \in S : x <= y
Max(S) == CHOOSE x \in S : \A y \in S : x >= y
Range(s) == {s[i] : i \in DOMAIN s}
EmptyMap == [x \in {} |-> 0]

\* The report of a worker that has not run.
NoRevert ==
    [ran |-> FALSE, InFiles |-> <<>>, Files |-> <<>>, Ignoredfiles |-> {},
     Missing |-> {}, AllExisting |-> {}, OtherThanAdded |-> {},
     trace |-> <<>>, firstOk |-> 0, Attempts |-> 0, othersOk |-> FALSE,
     updated |-> {}, errors |-> {}, ret |-> FALSE, Staged |-> {}, Index |-> {}]

\* FDateTime::MinValue(), the initial LastUpdated.
MinValue == 0

\* The clock: the time the provider starts at and the step it advances by.
Clock == [start |-> 40, step |-> 10]

\* The pool threads that call GetAllLocks.
LockThreads == {"t1", "t2"}

NoCall == [step |-> "none", thread |-> "", bInvalidateCache |-> FALSE,
           bCacheExpired |-> FALSE, subprocesses |-> 0, OutLocks |-> EmptyMap,
           remote |-> FALSE, fallback |-> FALSE, returned |-> FALSE, ret |-> FALSE]

IdleCall == [pc |-> "idle", CurrentTime |-> MinValue, bInvalidateCache |-> FALSE]

NoLockOp == [op |-> "none", FilePath |-> "", NewLocks |-> EmptyMap]

NoCheckOut == [ran |-> FALSE, Files |-> <<>>, before |-> EmptyMap, lfsLock |-> <<>>,
               States |-> EmptyMap, ret |-> FALSE]

NoSync == [ran |-> FALSE, Files |-> <<>>, bPendingRestart |-> FALSE, fetched |-> FALSE,
           updated |-> {}, trace |-> <<>>, dialog |-> "none", errors |-> {}, ret |-> FALSE]

\* The lines of porcelain output the model parses.
MaxLines == 2

\* The Connect commands the model issues.
MaxConnects == 2
ConnectIds == 1..MaxConnects

NoConnect == [issued |-> FALSE, InConcurrency |-> "Synchronous",
              Concurrency |-> "Synchronous", PathToGitBinary |-> "",
              onPool |-> FALSE, bExecuteProcessed |-> FALSE, lsRemote |-> "n/a",
              bCommandSuccessful |-> FALSE, result |-> "none"]

NoStatus == [index |-> 0, Line |-> <<" ", " ">>, found |-> FALSE, exists |-> FALSE,
             parsed |-> FALSE,
             FileState |-> "Indeterminate", TreeState |-> "Indeterminate"]

NoView == [State |-> [FileState |-> "Unknown", TreeState |-> "NotInRepo",
                       LockState |-> "Unknown", LockUser |-> "",
                       RemoteState |-> "UpToDate", HeadBranch |-> ""],
           shown |-> "none"]

\* The list lengths the model hands to the subprocess driver go up to this.
MaxFiles == 120

NoBatch == [called |-> FALSE, InternalFiles |-> <<>>, InternalExpectedReturnCode |-> 0,
            FileCount |-> 0, runs |-> <<>>, bResult |-> TRUE, done |-> FALSE,
            ret |-> FALSE]

NoRefresh == [ran |-> FALSE, worker |-> "none", Files |-> <<>>, Ignoredfiles |-> {},
              bUpdateHistory |-> FALSE, trace |-> <<>>, refreshed |-> FALSE,
              collected |-> {}, errors |-> {}, infos |-> {},
              bCommandSuccessful |-> FALSE, ret |-> FALSE]

NoUnlock == [called |-> FALSE, Files |-> {}, invoked |-> FALSE, outcome |-> "none",
             pruned |-> {}, ret |-> FALSE]

MaxRefreshes == 3

\* FGitLFSSourceControlRunner as its constructor leaves it: the thread runs, no
\* refresh is spawned, the owner reference is alive. pc is the position of the
\* runner's thread in Run, task the lambda that Run hands to the main thread,
\* queue the weak references held by the runner's commands in the command
\* queue, killing the main thread inside the destructor's Thread->Kill().
NewRunner == [pc |-> "Wait", bRunThread |-> TRUE, bRefreshSpawned |-> FALSE,
              alive |-> TRUE, killing |-> FALSE, task |-> "none",
              Result |-> "none", queue |-> <<>>, issued |-> 0]

\* No file of a status refresh has been given its state yet.
NoStatusOp == [index |-> 0, done |-> FALSE, added |-> FALSE, requested |-> FALSE,
               File |-> FileA, InUsingLfsLocking |-> FALSE, LockedFiles |-> EmptyMap,
               State |-> [FileState |-> "Unknown", TreeState |-> "NotInRepo",
                          LockState |-> "Unknown", LockUser |-> "",
                          RemoteState |-> "UpToDate", HeadBranch |-> ""]]

\* CheckRemote has not been called.
NoRemoteOp == [called |-> FALSE, remote |-> FALSE, order |-> <<>>,
               reports |-> <<>>, before |-> {}, pendingBefore |-> FALSE,
               NewerFiles |-> [x \in {} |-> 0], OutStates |-> [x \in {} |-> 0],
               bPendingRestart |-> FALSE]

\* Neither UpdateCachedStates nor GetState has been called. sinceMerge counts
\* the forced GetState calls for the file since the last merge of a delta
\* for it, -1 before any merge.
NoCacheOp == [op |-> "none", skipped |-> FALSE, ignored |-> FALSE, forced |-> {},
              sinceMerge |-> -1, gets |-> -1,
              before |-> [FileState |-> "Unknown", TreeState |-> "NotInRepo",
                          LockState |-> "Unknown", LockUser |-> "",
                          RemoteState |-> "UpToDate", HeadBranch |-> ""],
              delta |-> [FileState |-> "Unset", TreeState |-> "Unset",
                         LockState |-> "Unset", LockUser |-> "",
                         RemoteState |-> "Unset", HeadBranch |-> ""]]

\* Neither the changelists were rebuilt nor a package saved. Changelist maps a
\* state object of the State Cache to the changelist it names, Staged and
\* Working are the Files of the two changelist states.
NoChangelistOp == [op |-> "none", ret |-> FALSE, Changelist |-> [k \in {} |-> ""],
                   Staged |-> {}, Working |-> {}, added |-> {}]

\* Provider::Execute has not been called. bGitRepositoryFound is the
\* provider's flag, the rest describes the last call.
NoExecuteOp == [bGitRepositoryFound |-> FALSE, op |-> "none", OperationName |-> "",
                bound |-> FALSE, ret |-> "none", delegateCalls |-> 0,
                delegateResult |-> "none", created |-> FALSE, enqueued |-> FALSE]

\* No worker other than the queue's and the check-in has run.
IdleWorkers ==
    /\ revert = NoRevert
    /\ now = Clock.start
    /\ LastUpdated = MinValue
    /\ LastRefresh = MinValue
    /\ lockCalls = [t \in LockThreads |-> IdleCall]
    /\ lastGetAllLocks = NoCall
    /\ lockOp = NoLockOp
    /\ checkOut = NoCheckOut
    /\ sync = NoSync
    /\ connects = [c \in ConnectIds |-> NoConnect]
    /\ nextConnect = 1
    /\ gitStatus = NoStatus
    /\ view = NoView
    /\ batch = NoBatch
    /\ refreshOp = NoRefresh
    /\ unlockOp = NoUnlock
    /\ runner = NewRunner
    /\ statusOp = NoStatusOp
    /\ remoteOp = NoRemoteOp
    /\ cacheOp = NoCacheOp
    /\ clOp = NoChangelistOp
    /\ execOp = NoExecuteOp

RECURSIVE SortedSeq(_)
SortedSeq(S) == IF S = {} THEN <<>>
                ELSE LET m == Min(S) IN <<m>> \o SortedSeq(S \ {m})

\* A fixed enumeration of a set of files.
RECURSIVE SortedFiles(_)
SortedFiles(S) == IF S = {} THEN <<>>
                  ELSE LET f == CHOOSE x \in S : TRUE IN <<f>> \o SortedFiles(S \ {f})

----------------------------------------------------------------------------
\* State model

DefaultState ==
    [FileState |-> "Unknown", TreeState |-> "NotInRepo", LockState |-> "Unknown",
     LockUser |-> "", RemoteState |-> "UpToDate", HeadBranch |-> ""]

IsUnknown(st) == st.FileState = "Unknown" /\ st.TreeState = "NotInRepo"
CanAdd(st) == st.TreeState = "Untracked"
IsDeleted(st) == st.FileState = "Deleted"

IsFileLFSLockable(f) == \E t \in LockableTypes : f.ext = t

\* FGitLFSSourceControlProvider::GetStateInternal: the cached state, or a
\* freshly cached default state.
GetStateInternal(cache, f) == IF f \in DOMAIN cache THEN cache[f] ELSE DefaultState

CollectNewStates(Files, OutResults, FileState, TreeState, LockState, RemoteState) ==
    IF Len(Files) = 0 THEN OutResults
    ELSE LET NewState == [FileState |-> FileState, TreeState |-> TreeState,
                          LockState |-> LockState, LockUser |-> "",
                          RemoteState |-> RemoteState, HeadBranch |-> ""]
         IN [f \in DOMAIN OutResults \cup Range(Files) |->
                IF f \in Range(Files)
                THEN LET base == IF f \in DOMAIN OutResults THEN OutResults[f] ELSE NewState
                     IN [base EXCEPT
                           !.FileState = IF FileState # "Unset" THEN FileState ELSE @,
                           !.TreeState = IF TreeState # "Unset" THEN TreeState ELSE @,
                           !.LockState = IF LockState # "Unset" THEN LockState ELSE @,
                           !.RemoteState = IF RemoteState # "Unset" THEN RemoteState ELSE @]
                ELSE OutResults[f]]

\* One entry of the loop of UpdateCachedStates.
MergeState_LockUserAlways(old, d) ==
    IF d.FileState = "Added" /\ ~IsUnknown(old) /\ ~CanAdd(old)
    THEN old
    ELSE LET s1 == IF d.FileState # "Unset" THEN [old EXCEPT !.FileState = d.FileState] ELSE old
             s2 == IF d.TreeState # "Unset" THEN [s1 EXCEPT !.TreeState = d.TreeState] ELSE s1
             s3 == IF d.LockState # "Unset"
                   THEN [s2 EXCEPT !.LockState = d.LockState, !.LockUser = d.LockUser]
                   ELSE [s2 EXCEPT !.LockUser = d.LockUser]
         IN IF d.RemoteState # "Unset"
            THEN [s3 EXCEPT !.RemoteState = d.RemoteState,
                            !.HeadBranch = IF d.RemoteState = "UpToDate" THEN "" ELSE d.HeadBranch]
            ELSE s3

MergeState(old, d) ==
    IF d.FileState = "Added" /\ ~IsUnknown(old) /\ ~CanAdd(old)
    THEN old
    ELSE LET s1 == IF d.FileState # "Unset" THEN [old EXCEPT !.FileState = d.FileState] ELSE old
             s2 == IF d.TreeState # "Unset" THEN [s1 EXCEPT !.TreeState = d.TreeState] ELSE s1
             s3 == IF d.LockState # "Unset"
                   THEN [s2 EXCEPT !.LockState = d.LockState, !.LockUser = d.LockUser]
                   ELSE s2
         IN IF d.RemoteState # "Unset"
            THEN [s3 EXCEPT !.RemoteState = d.RemoteState,
                            !.HeadBranch = IF d.RemoteState = "UpToDate" THEN "" ELSE d.HeadBranch]
            ELSE s3

SkipsMerge(old, d) == d.FileState = "Added" /\ ~IsUnknown(old) /\ ~CanAdd(old)

\* FGitLFSSourceControlUtils::UpdateCachedStates on the pair (State Cache,
\* ignore-force set).
UpdateCachedStates(States, c) ==
    IF DOMAIN States = {} THEN c
    ELSE [cache |-> [f \in DOMAIN c.cache \cup DOMAIN States |->
                        IF f \in DOMAIN States
                        THEN MergeState(GetStateInternal(c.cache, f), States[f])
                        ELSE c.cache[f]],
          ignore |-> c.ignore \cup
                     {f \in DOMAIN States : ~SkipsMerge(GetStateInternal(c.cache, f), States[f])}]

----------------------------------------------------------------------------
\* Lock Cache

\* The path is in the Lock Cache with lock_user as owner.
LockedBySelf(locks, f) == f \in DOMAIN locks /\ locks[f] = LockUser

\* FGitLFSLockedFilesCache::OnFileLockChanged
OnFileLockChanged(ro, f, owner, bLocked) ==
    IF owner # LockUser THEN ro ELSE [ro EXCEPT ![f] = ~bLocked]

\* FGitLFSLockedFilesCache::AddLockedFile on the pair (LockedFiles, ReadOnly)
AddLockedFile(l, f, owner) ==
    [locks |-> [x \in DOMAIN l.locks \cup {f} |-> IF x = f THEN owner ELSE l.locks[x]],
     ro |-> OnFileLockChanged(l.ro, f, owner, TRUE)]

\* FGitLFSLockedFilesCache::RemoveLockedFile
RemoveLockedFile(l, f) ==
    [locks |-> [x \in DOMAIN l.locks \ {f} |-> l.locks[x]],
     ro |-> OnFileLockChanged(l.ro, f, IF f \in DOMAIN l.locks THEN l.locks[f] ELSE "", FALSE)]

RECURSIVE AddLockedFiles(_, _, _)
AddLockedFiles(l, files, owner) ==
    IF files = <<>> THEN l
    ELSE AddLockedFiles(AddLockedFile(l, Head(files), owner), Tail(files), owner)

RECURSIVE RemoveLockedFiles(_, _)
RemoveLockedFiles(l, files) ==
    IF files = <<>> THEN l
    ELSE RemoveLockedFiles(RemoveLockedFile(l, Head(files)), Tail(files))

----------------------------------------------------------------------------
\* Commands

BlankCommand ==
    [issued |-> FALSE, Files |-> <<>>, Concurrency |-> "Synchronous",
     bUsingGitLfsLocking |-> FALSE, onPool |-> FALSE,
     bExecuteProcessed |-> FALSE, bCancelled |-> FALSE, bCommandSuccessful |-> FALSE,
     ExecResult |-> "none", States |-> EmptyMap, updated |-> FALSE,
     delegateCalls |-> 0, delegateResult |-> "none"]

\* The FGitLFSSourceControlCommand built by Provider::Execute.
NewCommand(files) ==
    [BlankCommand EXCEPT !.issued = TRUE, !.Files = files,
                         !.bUsingGitLfsLocking = bUsingGitLfsLocking]

\* Lines 42-50 of FGitLFSCheckOutWorker::Execute: the files handed to
\* 'lfs lock'.
LockFilesArgs(Files, l) == SelectSeq(Files, IsFileLFSLockable)

\* FGitLFSCheckOutWorker::Execute. lockOk is the outcome of 'lfs lock'.
CheckOutExecute(cmd, lockOk, l) ==
    LET keep == [ret |-> TRUE, bCommandSuccessful |-> cmd.bCommandSuccessful,
                 States |-> cmd.States, l |-> l, lfsLock |-> <<>>]
    IN IF Len(cmd.Files) = 0 THEN keep
       ELSE IF ~cmd.bUsingGitLfsLocking
            THEN [keep EXCEPT !.ret = FALSE, !.bCommandSuccessful = FALSE]
       ELSE IF Len(SelectSeq(cmd.Files, IsFileLFSLockable)) < 1
            THEN [keep EXCEPT !.bCommandSuccessful = TRUE]
       ELSE IF ~lockOk
            THEN [keep EXCEPT !.ret = FALSE, !.bCommandSuccessful = FALSE,
                              !.lfsLock = LockFilesArgs(cmd.Files, l)]
       ELSE LET collected == CollectNewStates(cmd.Files, cmd.States,
                                              "Unset", "Unset", "Locked", "Unset")
            IN [ret |-> TRUE, bCommandSuccessful |-> TRUE,
                States |-> [f \in DOMAIN collected |->
                               [collected[f] EXCEPT !.LockUser = LockUser]],
                l |-> AddLockedFiles(l, cmd.Files, LockUser),
                lfsLock |-> LockFilesArgs(cmd.Files, l)]

\* FGitLFSSourceControlCommand::DoWork
DoWork(cmd, lockOk, l) ==
    LET r == CheckOutExecute(cmd, lockOk, l)
    IN [cmd |-> [cmd EXCEPT !.bCommandSuccessful = r.ret, !.ExecResult = IF r.ret THEN "true" ELSE "false",
                            !.bExecuteProcessed = TRUE, !.States = r.States],
        l |-> r.l]

\* The result FGitLFSSourceControlCommand::ReturnResults hands to the delegate.
ReturnResults(cmd) ==
    IF cmd.bCancelled THEN "Cancelled"
    ELSE IF cmd.bCommandSuccessful THEN "Succeeded" ELSE "Failed"

SatInc(n) == IF n < MaxCallbacks THEN n + 1 ELSE n

Notify(cmd) ==
    [cmd EXCEPT !.delegateCalls = SatInc(@), !.delegateResult = ReturnResults(cmd)]

AppendNew(order, cs) == order \o SelectSeq(cs, LAMBDA c : c \notin Range(order))

\* The report of a call of Tick; cleared by every other step.
NoTick == [finished |-> 0, removed |-> 0, updated |-> 0, called |-> 0,
           enqueued |-> FALSE, broadcast |-> FALSE]

----------------------------------------------------------------------------
\* Provider::IssueCommand

\* With a thread pool: AddQueuedWork and CommandQueue.Add.
IssueQueued(files) ==
    /\ CommandQueue' = Append(CommandQueue, nextCommand)
    /\ Commands' = [Commands EXCEPT ![nextCommand] = [NewCommand(files) EXCEPT !.onPool = TRUE]]
    /\ nextCommand' = nextCommand + 1

\* Without one: DoWork, UpdateStates, ReturnResults on the calling thread.
IssueInline(files, lockOk) ==
    LET w == DoWork(NewCommand(files), lockOk, [locks |-> LockedFiles, ro |-> ReadOnly])
        m == UpdateCachedStates(w.cmd.States, [cache |-> StateCache, ignore |-> IgnoreForceCache])
    IN /\ Commands' = [Commands EXCEPT ![nextCommand] = Notify([w.cmd EXCEPT !.updated = TRUE])]
       /\ callbackOrder' = Append(callbackOrder, nextCommand)
       /\ LockedFiles' = w.l.locks
       /\ ReadOnly' = w.l.ro
       /\ StateCache' = m.cache
       /\ IgnoreForceCache' = m.ignore
       /\ nextCommand' = nextCommand + 1
       /\ UNCHANGED CommandQueue

\* Provider::Execute with EConcurrency::Asynchronous
IssueAsynchronous(files, lockOk) ==
    /\ nextCommand <= MaxCommands
    /\ IF GThreadPool
       THEN /\ lockOk
            /\ IssueQueued(files)
            /\ UNCHANGED <<callbackOrder, StateCache, IgnoreForceCache, LockedFiles, ReadOnly>>
       ELSE IssueInline(files, lockOk)
    /\ lastTick' = NoTick
    /\ UNCHANGED <<GThreadPool, bUsingGitLfsLocking, syncCmd, syncResult>>

ExecuteAsync(files, lockOk) ==
    /\ IssueAsynchronous(files, lockOk)
    /\ UNCHANGED <<checkInVars, workerVars>>

\* The value ExecuteSynchronousCommand computes after its wait loop.
SyncResultOf(cmd) ==
    IF cmd.bCommandSuccessful THEN "Succeeded"
    ELSE IF cmd.bCancelled THEN "Cancelled" ELSE "Failed"

\* Provider::Execute with EConcurrency::Synchronous: IssueCommand, then the
\* wait loop of ExecuteSynchronousCommand.
IssueSynchronous(files, lockOk) ==
    /\ nextCommand <= MaxCommands
    /\ syncCmd = 0
    /\ IF GThreadPool
       THEN /\ lockOk
            /\ IssueQueued(files)
            /\ syncCmd' = nextCommand
            /\ UNCHANGED <<callbackOrder, StateCache, IgnoreForceCache, LockedFiles,
                           ReadOnly, syncResult>>
       ELSE /\ IssueInline(files, lockOk)
            /\ syncResult' = [syncResult EXCEPT ![nextCommand] = SyncResultOf(Commands'[nextCommand])]
            /\ UNCHANGED syncCmd
    /\ lastTick' = NoTick
    /\ UNCHANGED <<GThreadPool, bUsingGitLfsLocking>>

ExecuteSync(files, lockOk) ==
    /\ IssueSynchronous(files, lockOk)
    /\ UNCHANGED <<checkInVars, workerVars>>

\* A pool thread runs FGitLFSSourceControlCommand::DoThreadedWork.
WorkerRun(c, lockOk) ==
    /\ Commands[c].issued
    /\ Commands[c].onPool
    /\ ~Commands[c].bExecuteProcessed
    /\ LET w == DoWork([Commands[c] EXCEPT !.Concurrency = "Asynchronous"], lockOk,
                       [locks |-> LockedFiles, ro |-> ReadOnly])
       IN /\ Commands' = [Commands EXCEPT ![c] = w.cmd]
          /\ LockedFiles' = w.l.locks
          /\ ReadOnly' = w.l.ro
    /\ UNCHANGED <<checkInVars, workerVars>>
    /\ UNCHANGED <<GThreadPool, bUsingGitLfsLocking, CommandQueue, nextCommand, callbackOrder,
                   StateCache, IgnoreForceCache, syncCmd, syncResult>>
    /\ lastTick' = NoTick

\* Provider::CancelOperation
CancelOperation(c) ==
    /\ c \in Range(CommandQueue)
    /\ ~Commands[c].bCancelled
    /\ Commands' = [Commands EXCEPT ![c].bCancelled = TRUE]
    /\ UNCHANGED <<checkInVars, workerVars>>
    /\ UNCHANGED <<GThreadPool, bUsingGitLfsLocking, CommandQueue, nextCommand, callbackOrder,
                   StateCache, IgnoreForceCache, LockedFiles, ReadOnly, syncCmd, syncResult>>
    /\ lastTick' = NoTick

----------------------------------------------------------------------------
\* Provider::Tick

\* The positions of the queue a call of Tick handles: the loop stops (break)
\* at the first command that has been processed or cancelled.
TickTargets_NoBreak(q) ==
    {i \in 1..Len(q) : Commands[q[i]].bExecuteProcessed \/ Commands[q[i]].bCancelled}

TickTargets_Last(q) ==
    LET ready == {i \in 1..Len(q) : Commands[q[i]].bExecuteProcessed \/ Commands[q[i]].bCancelled}
    IN IF ready = {} THEN {} ELSE {Max(ready)}

TickTargets(q) ==
    LET ready == {i \in 1..Len(q) : Commands[q[i]].bExecuteProcessed \/ Commands[q[i]].bCancelled}
    IN IF ready = {} THEN {} ELSE {Min(ready)}

\* Whether Tick runs Worker->UpdateStates() for a command it removes: the
\* call is not guarded by IsCanceled().
TickUpdatesStates(cmd) == TRUE

\* Whether Tick runs the completion delegate of a command it handles: a
\* finished command unless cancelled, an unfinished command if cancelled.
TickNotifies(cmd) ==
    IF cmd.bExecuteProcessed THEN ~cmd.bCancelled ELSE cmd.bCancelled

RECURSIVE MergeAll(_, _)
MergeAll(cs, c) ==
    IF cs = <<>> THEN c
    ELSE MergeAll(Tail(cs), UpdateCachedStates(Commands[Head(cs)].States, c))

\* The foreground thread may call Tick: from the engine's frame, or from the
\* wait loop of ExecuteSynchronousCommand while its condition holds.
SyncLoopRuns_UntilProcessed ==
    /\ syncCmd # 0
    /\ ~Commands[syncCmd].bCancelled
    /\ ~Commands[syncCmd].bExecuteProcessed

SyncLoopRuns ==
    /\ syncCmd # 0
    /\ ~Commands[syncCmd].bCancelled
    /\ syncCmd \in Range(CommandQueue)

Tick(cb, files) ==
    /\ syncCmd = 0 \/ SyncLoopRuns
    /\ LET q == CommandQueue
           idx == SortedSeq(TickTargets(q))
           handled == [i \in DOMAIN idx |-> q[idx[i]]]
           drained == SelectSeq(handled, LAMBDA c : Commands[c].bExecuteProcessed)
           updated == SelectSeq(drained, LAMBDA c : TickUpdatesStates(Commands[c]))
           notified == SelectSeq(handled, LAMBDA c : TickNotifies(Commands[c]))
           merged == MergeAll(updated, [cache |-> StateCache, ignore |-> IgnoreForceCache])
           rest == SelectSeq(q, LAMBDA c : c \notin Range(drained))
           enqueue == cb = "enqueue" /\ notified # <<>> /\ GThreadPool
                      /\ nextCommand <= MaxCommands
           after == [c \in CmdIds |->
                        LET c1 == IF c \in Range(updated)
                                  THEN [Commands[c] EXCEPT !.updated = TRUE] ELSE Commands[c]
                        IN IF c \in Range(notified) THEN Notify(c1) ELSE c1]
       IN /\ cb = "enqueue" => enqueue
          /\ cb = "none" => files = <<>>
          /\ StateCache' = merged.cache
          /\ IgnoreForceCache' = merged.ignore
          /\ callbackOrder' = AppendNew(callbackOrder, notified)
          /\ IF enqueue
             THEN /\ CommandQueue' = Append(rest, nextCommand)
                  /\ Commands' = [after EXCEPT ![nextCommand] =
                                     [NewCommand(files) EXCEPT !.onPool = TRUE]]
                  /\ nextCommand' = nextCommand + 1
             ELSE /\ CommandQueue' = rest
                  /\ Commands' = after
                  /\ UNCHANGED nextCommand
          /\ lastTick' = [finished |-> Cardinality({c \in Range(q) : Commands[c].bExecuteProcessed}),
                          removed |-> Len(drained),
                          updated |-> Len(updated),
                          called |-> Len(notified),
                          enqueued |-> enqueue,
                          broadcast |-> \E i \in DOMAIN updated :
                                            DOMAIN Commands[updated[i]].States # {}]
    /\ UNCHANGED <<checkInVars, workerVars>>
    /\ UNCHANGED <<GThreadPool, bUsingGitLfsLocking, LockedFiles, ReadOnly, syncCmd, syncResult>>

\* ExecuteSynchronousCommand leaves its wait loop and returns.
SyncReturn ==
    /\ syncCmd # 0
    /\ ~SyncLoopRuns
    /\ syncResult' = [syncResult EXCEPT ![syncCmd] = SyncResultOf(Commands[syncCmd])]
    /\ syncCmd' = 0
    /\ UNCHANGED <<checkInVars, workerVars>>
    /\ UNCHANGED <<GThreadPool, bUsingGitLfsLocking, CommandQueue, Commands, nextCommand,
                   callbackOrder, StateCache, IgnoreForceCache, LockedFiles, ReadOnly>>
    /\ lastTick' = NoTick

----------------------------------------------------------------------------
\* FGitLFSCheckInWorker
\*
\* The outcome of one git invocation is "ok", or the kind of line its failure
\* left in Command.ResultInfo.ErrorMessages: "none" (no line), "outside" (a
\* line containing "' is outside repository"), "stale" (a line the push
\* retry test matches: [rejected] with non-fast-forward or fetch first, or
\* cannot lock ref), "other".

OtherUser == "bob"

Succeeded(o) == o = "ok"
ErrorLines(o) == IF o \in {"ok", "none"} THEN {} ELSE {o}

NoCheckIn ==
    [ran |-> FALSE, Files |-> <<>>, before |-> EmptyMap, bDoCommit |-> FALSE,
     bDiffSuccess |-> FALSE, CommittedFiles |-> {}, trace |-> <<>>,
     pushed |-> FALSE, pushLine |-> "n/a", pushOk |-> FALSE, fetched |-> FALSE,
     pulled |-> FALSE, unlockRan |-> FALSE, unlockArg |-> {}, pruned |-> {},
     errors |-> {}, dialog |-> "none", States |-> EmptyMap, ret |-> FALSE]

\* Provider::GetState(Files, Use): GetStateInternal caches a default state
\* for every file that has none.
GetState(cache, files) ==
    [f \in DOMAIN cache \cup files |-> GetStateInternal(cache, f)]

\* Lines 44-55: a commit that succeeded drops the input files cached as
\* Deleted from the State Cache.
DropDeleted(cache, files) ==
    LET c == GetState(cache, files)
    IN [f \in {x \in DOMAIN c : ~(x \in files /\ IsDeleted(c[x]))} |-> c[f]]

\* Lines 82-90: whether there is something to push.
UnpushedFiles_Always(bDiffSuccess, CommittedFiles) == TRUE

UnpushedFiles(bDiffSuccess, CommittedFiles) ==
    IF bDiffSuccess THEN CommittedFiles # {} ELSE TRUE

\* Lines 83-90: the files marked for check in.
FilesToCheckIn_AllCommitted(files, bDiffSuccess, CommittedFiles) ==
    files \cup (IF bDiffSuccess THEN CommittedFiles ELSE {})

FilesToCheckIn(files, bDiffSuccess, CommittedFiles) ==
    files \cup (IF bDiffSuccess THEN {f \in CommittedFiles : IsFileLFSLockable(f)} ELSE {})

\* FGitLFSSourceControlUtils::GetLockedFiles
GetLockedFiles(cache, files) ==
    {f \in files : GetStateInternal(cache, f).LockState = "Locked"}

\* Lines 149-158: whether the unlock step runs.
UnlockStepRuns_Always(lfs, bCommandSuccessful) == lfs

UnlockStepRuns(lfs, bCommandSuccessful) == lfs /\ bCommandSuccessful

\* FGitLFSCommandHelpers::UnlockFiles. bSuccess is a function-local static:
\* 'lfs unlock' runs in the first call that has files, later calls reuse
\* its result.
UnlockFiles(files, static, outcome, l) ==
    IF files = {}
    THEN [invoked |-> FALSE, static |-> static, errors |-> {}, pruned |-> {}, l |-> l]
    ELSE LET invoked == static = "unset"
             bSuccess == IF invoked THEN Succeeded(outcome) ELSE static = "true"
         IN [invoked |-> invoked, static |-> IF bSuccess THEN "true" ELSE "false",
             errors |-> IF invoked THEN ErrorLines(outcome) ELSE {},
             pruned |-> IF bSuccess THEN files ELSE {},
             l |-> IF bSuccess THEN RemoveLockedFiles(l, SortedFiles(files)) ELSE l]

\* FGitLFSLockedFilesCache::SetLockedFiles
SetLockedFiles(l, NewLocks) ==
    [locks |-> NewLocks,
     ro |-> [f \in DOMAIN l.ro |->
               IF f \in DOMAIN l.locks /\ f \notin DOMAIN NewLocks
               THEN OnFileLockChanged(l.ro, f, l.locks[f], FALSE)[f]
               ELSE IF f \notin DOMAIN l.locks /\ f \in DOMAIN NewLocks
               THEN OnFileLockChanged(l.ro, f, NewLocks[f], TRUE)[f]
               ELSE l.ro[f]]]

\* FGitLFSSourceControlUtils::RemoveRedundantErrors on (error lines,
\* bCommandSuccessful): the result the command ends with.
RemoveRedundantErrors_AnyRedundant(errors, bCommandSuccessful) ==
    bCommandSuccessful \/ "outside" \in errors

RemoveRedundantErrors(errors, bCommandSuccessful) ==
    bCommandSuccessful \/ ("outside" \in errors /\ errors \ {"outside"} = {})

\* The lock fields ParseFileStatusResult gives a file.
StatusLockState(f, lfs, locks) ==
    IF ~lfs \/ ~IsFileLFSLockable(f) THEN "Unlockable"
    ELSE IF f \notin DOMAIN locks THEN "NotLocked"
    ELSE IF locks[f] = LockUser THEN "Locked" ELSE "LockedOther"

\* FGitLFSSourceControlUtils::RunUpdateStatus for files git status lists
\* none of (clean files that exist on disk). query is the answer of the
\* lock server, used when the Lock Cache has expired.
RunUpdateStatus(files, lfs, outcome, query, l) ==
    IF files = {}
    THEN [errors |-> {}, States |-> EmptyMap, l |-> l]
    ELSE IF ~Succeeded(outcome)
    THEN [errors |-> ErrorLines(outcome), States |-> EmptyMap, l |-> l]
    ELSE LET refresh == lfs /\ query.expired /\ \E f \in files : IsFileLFSLockable(f)
             l2 == IF refresh THEN SetLockedFiles(l, query.locks) ELSE l
         IN [errors |-> {},
             States |-> [f \in files |->
                 [FileState |-> "Unknown", TreeState |-> "Unmodified",
                  LockState |-> StatusLockState(f, lfs, l2.locks),
                  LockUser |-> IF lfs /\ IsFileLFSLockable(f) /\ f \in DOMAIN l2.locks
                               THEN l2.locks[f] ELSE "",
                  RemoteState |-> "UpToDate", HeadBranch |-> ""]],
             l |-> l2]

\* Lines 103-113: the test on the collected error lines that sends a failed
\* push to the fetch, pull and push again path.
bWasOutOfDate_Always(errors) == TRUE

bWasOutOfDate(errors) == "stale" \in errors

\* The dialog test without the pending-restart flag.
PullRequiredDialog_IgnoresRestart(bCommandSuccessful, pendingRestart) ==
    ~bCommandSuccessful

\* Lines 126-139: the test that opens the 'Git Pull Required' dialog after
\* the retry.
PullRequiredDialog(bCommandSuccessful, pendingRestart) ==
    ~bCommandSuccessful /\ ~pendingRestart

\* Lines 94-146: the push step. g holds the outcomes of push, fetch, pull
\* and the second push.
PushStep(bUnpushedFiles, errors, g, pendingRestart) ==
    IF ~bUnpushedFiles
    THEN [ok |-> TRUE, pushed |-> FALSE, trace |-> <<>>, errors |-> errors,
          PulledFiles |-> {}, fetched |-> FALSE, pulled |-> FALSE,
          dialog |-> "none"]
    ELSE IF Succeeded(g.push)
    THEN [ok |-> TRUE, pushed |-> TRUE, trace |-> <<"push">>, errors |-> errors,
          PulledFiles |-> {}, fetched |-> FALSE, pulled |-> FALSE,
          dialog |-> "none"]
    ELSE LET e1 == errors \cup ErrorLines(g.push)
         IN IF ~bWasOutOfDate(e1)
            THEN [ok |-> FALSE, pushed |-> TRUE, trace |-> <<"push">>, errors |-> e1,
                  PulledFiles |-> {}, fetched |-> FALSE, pulled |-> FALSE,
                  dialog |-> "none"]
            ELSE LET fetched == Succeeded(g.fetch)
                     e2 == e1 \cup ErrorLines(g.fetch)
                     pulled == fetched /\ ~pendingRestart /\ Succeeded(g.pull)
                     e3 == IF fetched /\ ~pendingRestart THEN e2 \cup ErrorLines(g.pull) ELSE e2
                     again == pulled /\ Succeeded(g.push2)
                     e4 == IF pulled THEN e3 \cup ErrorLines(g.push2) ELSE e3
                 IN [ok |-> again, pushed |-> TRUE,
                     trace |-> <<"push", "fetch">>
                               \o (IF fetched /\ ~pendingRestart THEN <<"pull">> ELSE <<>>)
                               \o (IF pulled THEN <<"push">> ELSE <<>>),
                     errors |-> e4,
                     PulledFiles |-> IF pulled THEN g.pulled ELSE {},
                     fetched |-> fetched, pulled |-> pulled,
                     dialog |-> IF PullRequiredDialog(again, pendingRestart)
                                THEN "Git Pull Required"
                                ELSE IF fetched /\ pendingRestart THEN "Binaries Update Required"
                                ELSE "none"]

\* FGitLFSCheckInWorker::Execute. g holds the outcome of every git
\* invocation, cache and l are the State Cache and the Lock Cache, static is
\* the static of UnlockFiles.
CheckInWorkerExecute(Files, lfs, g, cache, l, static, pendingRestart) ==
    LET files == Range(Files)
        wantCommit == Len(Files) > 0
        bDoCommit == wantCommit /\ Succeeded(g.add) /\ Succeeded(g.commit)
        e1 == IF wantCommit THEN ErrorLines(g.add) \cup ErrorLines(g.commit) ELSE {}
        t1 == IF wantCommit THEN <<"add", "commit">> ELSE <<>>
        cache1 == IF bDoCommit THEN DropDeleted(cache, files) ELSE cache
        bDiffSuccess == Succeeded(g.diff)
        CommittedFiles == IF bDiffSuccess THEN g.committed ELSE {}
        e2 == e1 \cup ErrorLines(g.diff)
        bUnpushedFiles == UnpushedFiles(bDiffSuccess, CommittedFiles)
        marked == FilesToCheckIn(files, bDiffSuccess, CommittedFiles)
        p == PushStep(bUnpushedFiles, e2, g, pendingRestart)
        unlockRuns == UnlockStepRuns(lfs, p.ok)
        cache2 == IF unlockRuns THEN GetState(cache1, marked) ELSE cache1
        arg == IF unlockRuns THEN GetLockedFiles(cache1, marked) ELSE {}
        u == UnlockFiles(arg, static, g.unlock, l)
        all == marked \cup p.PulledFiles \cup CommittedFiles
        st == RunUpdateStatus(all, lfs, g.status, g.locks, u.l)
        e3 == p.errors \cup u.errors \cup st.errors
    IN [ran |-> TRUE, Files |-> Files, before |-> cache, bDoCommit |-> bDoCommit,
        bDiffSuccess |-> bDiffSuccess, CommittedFiles |-> CommittedFiles,
        trace |-> t1 \o <<"diff">> \o p.trace \o (IF u.invoked THEN <<"lfs unlock">> ELSE <<>>)
                  \o (IF all # {} THEN <<"status">> ELSE <<>>),
        pushed |-> p.pushed, pushLine |-> IF p.pushed THEN g.push ELSE "n/a",
        pushOk |-> p.pushed /\ p.ok, fetched |-> p.fetched, pulled |-> p.pulled,
        unlockRan |-> u.invoked, unlockArg |-> arg, pruned |-> u.pruned,
        errors |-> e3, dialog |-> p.dialog, States |-> st.States,
        ret |-> RemoveRedundantErrors(e3, p.ok),
        cache |-> cache2, l |-> st.l, static |-> u.static]

\* Lines 100-113: a failed push is retried when a line of
\* Command.ResultInfo.ErrorMessages, which also holds the lines the commit
\* left, matches the test.
WasOutOfDate(commit, push) ==
    ~Succeeded(push) /\ "stale" \in ErrorLines(commit) \cup ErrorLines(push)

\* Inputs of the check-in model.
CheckInFileLists == {<<>>, <<FileA>>, <<FileA, FileB>>}
RemoteLockMaps == {EmptyMap, [f \in {FileA} |-> LockUser]}
LockQueries ==
    {[expired |-> FALSE, locks |-> EmptyMap]}
        \cup {[expired |-> TRUE, locks |-> m] : m \in RemoteLockMaps}

\* A pool thread runs FGitLFSCheckInWorker::Execute, with every outcome of
\* the git invocations it reaches.
CheckInExecute ==
    /\ ~checkIn.ran
    /\ \E Files \in CheckInFileLists :
       \E add \in (IF Files = <<>> THEN {"ok"} ELSE {"ok", "outside"}),
          commit \in (IF Files = <<>> THEN {"ok"} ELSE {"ok", "other", "stale"}),
          diff \in {"ok", "other"} :
       \E committed \in (IF diff = "ok" THEN SUBSET AllFiles ELSE {{}}) :
       \E push \in (IF UnpushedFiles(diff = "ok", committed)
                    THEN {"ok", "none", "stale", "other"} ELSE {"ok"}) :
       \E fetch \in (IF WasOutOfDate(commit, push) THEN {"ok", "other"} ELSE {"ok"}) :
       \E pull \in (IF WasOutOfDate(commit, push) /\ fetch = "ok" /\ ~bPendingRestart
                    THEN {"ok", "other"} ELSE {"none"}) :
       \E pulled \in (IF pull = "ok" THEN {{FileB}} ELSE {{}}),
          push2 \in (IF pull = "ok" THEN {"ok", "other"} ELSE {"none"}),
          unlock \in (IF bUsingGitLfsLocking /\ UnlockFilesResult = "unset"
                      THEN {"ok", "other"} ELSE {"none"}),
          status \in {"ok", "outside", "other"} :
       \E locks \in (IF bUsingGitLfsLocking /\ status = "ok"
                     THEN LockQueries ELSE {[expired |-> FALSE, locks |-> EmptyMap]}) :
          LET g == [add |-> add, commit |-> commit, diff |-> diff, committed |-> committed,
                    push |-> push, fetch |-> fetch, pull |-> pull, pulled |-> pulled,
                    push2 |-> push2, unlock |-> unlock, status |-> status, locks |-> locks]
              r == CheckInWorkerExecute(Files, bUsingGitLfsLocking, g, StateCache,
                                        [locks |-> LockedFiles, ro |-> ReadOnly],
                                        UnlockFilesResult, bPendingRestart)
          IN /\ checkIn' = [k \in DOMAIN NoCheckIn |-> r[k]]
             /\ StateCache' = r.cache
             /\ LockedFiles' = r.l.locks
             /\ ReadOnly' = r.l.ro
             /\ UnlockFilesResult' = r.static
    /\ UNCHANGED <<GThreadPool, bUsingGitLfsLocking, CommandQueue, Commands, nextCommand,
                   callbackOrder, IgnoreForceCache, syncCmd, syncResult, lastTick,
                   bPendingRestart, workerVars>>

\* The State Cache entries a file may have before a check-in: a lockable
\* file locked by the user (modified or deleted) or not locked, another file
\* marked Locked by a check-out that included a lockable file.
CachedStates(f) ==
    {[DefaultState EXCEPT !.FileState = o.file, !.TreeState = "Working",
                          !.LockState = o.lock,
                          !.LockUser = IF o.lock = "Locked" THEN LockUser ELSE ""] :
        o \in (IF IsFileLFSLockable(f)
               THEN {[file |-> "Modified", lock |-> "Locked"],
                     [file |-> "Deleted", lock |-> "Locked"],
                     [file |-> "Modified", lock |-> "NotLocked"]}
               ELSE {[file |-> "Modified", lock |-> "Locked"]})}

CheckInCaches ==
    UNION {{c \in [D -> UNION {CachedStates(f) : f \in D}] :
               \A f \in D : c[f] \in CachedStates(f)} : D \in SUBSET AllFiles}

\* The Lock Cache that goes with a State Cache.
LocksOf(cache) ==
    [f \in {x \in DOMAIN cache : cache[x].LockState \in {"Locked", "LockedOther"}} |->
        cache[f].LockUser]

InitCheckIn ==
    /\ GThreadPool = TRUE
    /\ bUsingGitLfsLocking \in BOOLEAN
    /\ CommandQueue = <<>>
    /\ Commands = [c \in CmdIds |-> BlankCommand]
    /\ nextCommand = 1
    /\ callbackOrder = <<>>
    /\ StateCache \in CheckInCaches
    /\ IgnoreForceCache = {}
    /\ LockedFiles = LocksOf(StateCache)
    /\ ReadOnly = [f \in AllFiles |->
                     IsFileLFSLockable(f)
                     /\ ~(f \in DOMAIN LockedFiles /\ LockedFiles[f] = LockUser)]
    /\ syncCmd = 0
    /\ syncResult = [c \in CmdIds |-> "none"]
    /\ lastTick = NoTick
    /\ bPendingRestart \in BOOLEAN
    /\ UnlockFilesResult \in {"unset", "true", "false"}
    /\ checkIn = NoCheckIn
    /\ OnDisk = AllFiles
    /\ IdleWorkers

NextCheckIn == CheckInExecute

SpecCheckIn == InitCheckIn /\ [][NextCheckIn]_vars

----------------------------------------------------------------------------
\* FGitLFSRevertWorker

\* constexpr int32 Attempts of the checkout loop.
Attempts == 10

IsSourceControlled(st) == st.TreeState \notin {"Untracked", "Ignored", "NotInRepo"}
IsAdded(st) == st.FileState = "Added"
IsModified(st) == st.TreeState \in {"Working", "Staged"}
IsCurrent(st) == st.RemoteState \notin {"NotAtHead", "NotLatest"}
IsConflicted(st) == st.FileState = "Unmerged"

CanCheckIn(st) ==
    IF IsAdded(st) THEN TRUE
    ELSE IF ~IsCurrent(st) \/ IsConflicted(st) THEN FALSE
    ELSE IF st.LockState = "Locked" THEN TRUE
    ELSE st.LockState # "LockedOther" /\ IsModified(st) /\ IsSourceControlled(st)

CanRevert(st) == CanCheckIn(st) \/ IsModified(st)

\* FGitLFSCommandHelpers::RemoveIgnoredFiles, called by Execute: the files
\* 'git check-ignore' reports leave Command.Files for Command.Ignoredfiles.
RemoveIgnoredFiles(InFiles, ignored) ==
    [Files |-> SelectSeq(InFiles, LAMBDA f : f \notin ignored),
     Ignoredfiles |-> Range(InFiles) \cap ignored]

\* FGitLFSRevertWorker::GetMissingVsExistingFiles: the input files, or every
\* file of the State Cache when there is none, split by cached state and by
\* presence on disk.
GetMissingVsExistingFiles(Files, cache, disk) ==
    LET src == IF Len(Files) > 0 THEN Range(Files) ELSE DOMAIN cache
        c == GetState(cache, src)
    IN [cache |-> c,
        Missing |-> {f \in src : f \notin disk /\ IsSourceControlled(c[f])
                                 /\ ~IsDeleted(c[f])},
        AllExisting |-> {f \in src : f \in disk /\ (IsAdded(c[f]) \/ IsModified(c[f]))},
        OtherThanAdded |-> {f \in src : f \in disk /\ ~IsAdded(c[f])
                                        /\ (IsModified(c[f]) \/ CanRevert(c[f]))}]

\* The file another process may hold open: the n-th 'git checkout' of a list
\* that contains it fails for n < firstOk.
HeldFile == FileA

\* Lines 53-71: the checkout loop, entered after done checkouts of the held
\* file. Index counts the iterations that ran.
CheckoutLoop(files, done, firstOk) ==
    IF HeldFile \notin files \/ done + 1 >= firstOk
    THEN [ok |-> TRUE, Index |-> 1]
    ELSE IF firstOk - done <= Attempts
    THEN [ok |-> TRUE, Index |-> firstOk - done]
    ELSE [ok |-> FALSE, Index |-> Attempts]

Repeat(x, n) == [i \in 1..n |-> x]

\* Lines 82-99: the files whose status the worker refreshes.
FilesToUpdate_InputOnly(Files, m) == Range(Files)

FilesToUpdate(Files, m) ==
    IF Len(Files) = 0 THEN m.Missing \cup m.AllExisting \cup m.OtherThanAdded
    ELSE Range(Files)

\* The files with changes in the index: git reports them as staged.
StagedFiles(cache) == {f \in DOMAIN cache : cache[f].TreeState = "Staged"}

\* FGitLFSCommandHelpers::RunReset: 'git reset' is given no path, so that a
\* reset that succeeds takes every change out of the index.
RunReset(bHard, result, Index) == IF Succeeded(result) THEN {} ELSE Index

\* FGitLFSRevertWorker::Execute
RevertWorkerExecute(InFiles, Files, Ignoredfiles, lfs, g, cache, disk, l, static) ==
    IF Len(Files) = 0 /\ Ignoredfiles # {}
    THEN [NoRevert EXCEPT !.ran = TRUE, !.InFiles = InFiles, !.Files = Files,
                          !.Ignoredfiles = Ignoredfiles, !.ret = TRUE,
                          !.Staged = StagedFiles(cache), !.Index = StagedFiles(cache)]
         @@ [cache |-> cache, l |-> l, static |-> static]
    ELSE
    LET m == GetMissingVsExistingFiles(Files, cache, disk)
        full == Len(Files) = 0
        rmRuns == ~full /\ m.Missing # {}
        resetRuns == ~full /\ m.AllExisting # {}
        loopRuns == ~full /\ m.OtherThanAdded # {}
        done == IF resetRuns /\ HeldFile \in m.AllExisting THEN 1 ELSE 0
        firstCheckoutOk == done = 0 \/ g.firstOk <= 1
        loop == CheckoutLoop(m.OtherThanAdded, done, g.firstOk)
        bCommandSuccessful ==
            IF full THEN Succeeded(g.reset) /\ Succeeded(g.clean)
            ELSE /\ rmRuns => Succeeded(g.rm)
                 /\ resetRuns => (Succeeded(g.reset) /\ firstCheckoutOk)
                 /\ loopRuns => loop.ok
        t1 == IF full THEN <<"reset --hard", "clean -f -d">>
              ELSE (IF rmRuns THEN <<"rm">> ELSE <<>>)
                   \o (IF resetRuns THEN <<"reset", "checkout">> ELSE <<>>)
                   \o (IF loopRuns THEN Repeat("checkout again", loop.Index) ELSE <<>>)
        e1 == IF full THEN ErrorLines(g.reset) \cup ErrorLines(g.clean)
              ELSE (IF rmRuns THEN ErrorLines(g.rm) ELSE {})
                   \cup (IF resetRuns THEN ErrorLines(g.reset) ELSE {})
                   \cup (IF (resetRuns /\ ~firstCheckoutOk)
                            \/ (loopRuns /\ (loop.Index > 1 \/ ~loop.ok))
                         THEN {"other"} ELSE {})
        unlockRuns == lfs /\ bCommandSuccessful
        cache2 == IF unlockRuns THEN GetState(m.cache, m.OtherThanAdded) ELSE m.cache
        arg == IF unlockRuns THEN GetLockedFiles(m.cache, m.OtherThanAdded) ELSE {}
        u == UnlockFiles(arg, static, g.unlock, l)
        upd == FilesToUpdate(Files, m)
        st == RunUpdateStatus(upd, lfs, g.status, g.locks, u.l)
        e2 == e1 \cup u.errors \cup st.errors
    IN [ran |-> TRUE, InFiles |-> InFiles, Files |-> Files, Ignoredfiles |-> Ignoredfiles,
        Missing |-> m.Missing, AllExisting |-> m.AllExisting,
        OtherThanAdded |-> m.OtherThanAdded,
        trace |-> t1 \o (IF u.invoked THEN <<"lfs unlock">> ELSE <<>>)
                  \o (IF upd # {} THEN <<"status">> ELSE <<>>),
        firstOk |-> g.firstOk, Attempts |-> IF loopRuns THEN loop.Index ELSE 0,
        othersOk |-> IF full THEN Succeeded(g.reset) /\ Succeeded(g.clean)
                     ELSE (rmRuns => Succeeded(g.rm)) /\ (resetRuns => Succeeded(g.reset)),
        updated |-> upd, errors |-> e2,
        ret |-> RemoveRedundantErrors(e2, bCommandSuccessful),
        Staged |-> StagedFiles(cache),
        Index |-> IF full \/ resetRuns
                  THEN RunReset(full, g.reset, StagedFiles(cache))
                  ELSE StagedFiles(cache),
        cache |-> cache2, l |-> st.l, static |-> u.static]

\* Inputs of the revert model.
RevertFileLists == {<<>>, <<FileA>>, <<FileB>>, <<FileA, FileB>>}

\* A pool thread runs FGitLFSRevertWorker::Execute on the files Execute left
\* in the command, with every outcome of the git invocations it reaches.
RevertExecute ==
    /\ ~revert.ran
    /\ \E InFiles \in RevertFileLists :
       \E ignored \in SUBSET (Range(InFiles) \cap {FileB}) :
       LET c == RemoveIgnoredFiles(InFiles, ignored)
           m == GetMissingVsExistingFiles(c.Files, StateCache, OnDisk)
           early == Len(c.Files) = 0 /\ c.Ignoredfiles # {}
           full == Len(c.Files) = 0
       IN
       \E rm \in (IF ~early /\ ~full /\ m.Missing # {} THEN {"ok", "other"} ELSE {"ok"}),
          reset \in (IF ~early /\ (full \/ m.AllExisting # {})
                     THEN {"ok", "other"} ELSE {"ok"}),
          clean \in (IF ~early /\ full THEN {"ok", "other"} ELSE {"ok"}),
          firstOk \in (IF ~early /\ ~full
                          /\ HeldFile \in m.AllExisting \cup m.OtherThanAdded
                       THEN 1..(Attempts + 2) ELSE {1}),
          unlock \in (IF ~early /\ bUsingGitLfsLocking /\ UnlockFilesResult = "unset"
                      THEN {"ok", "other"} ELSE {"none"}),
          status \in (IF early THEN {"ok"} ELSE {"ok", "outside", "other"}) :
       \E locks \in (IF ~early /\ bUsingGitLfsLocking /\ status = "ok"
                     THEN LockQueries ELSE {[expired |-> FALSE, locks |-> EmptyMap]}) :
          LET g == [rm |-> rm, reset |-> reset, clean |-> clean, firstOk |-> firstOk,
                    unlock |-> unlock, status |-> status, locks |-> locks]
              r == RevertWorkerExecute(InFiles, c.Files, c.Ignoredfiles,
                                       bUsingGitLfsLocking, g, StateCache, OnDisk,
                                       [locks |-> LockedFiles, ro |-> ReadOnly],
                                       UnlockFilesResult)
          IN /\ revert' = [k \in DOMAIN NoRevert |-> r[k]]
             /\ StateCache' = r.cache
             /\ LockedFiles' = r.l.locks
             /\ ReadOnly' = r.l.ro
             /\ UnlockFilesResult' = r.static
    /\ UNCHANGED <<GThreadPool, bUsingGitLfsLocking, CommandQueue, Commands, nextCommand,
                   callbackOrder, IgnoreForceCache, syncCmd, syncResult, lastTick,
                   bPendingRestart, checkIn, OnDisk, lockVars, restVars>>

\* The State Cache entries a file may have before a revert: marked for add,
\* modified (locked by the user or not), locked by the user and unmodified,
\* or clean.
RevertStates(f) ==
    {[DefaultState EXCEPT !.FileState = o.file, !.TreeState = o.tree,
                          !.LockState = o.lock,
                          !.LockUser = IF o.lock = "Locked" THEN LockUser ELSE ""] :
        o \in (IF IsFileLFSLockable(f)
               THEN {[file |-> "Added", tree |-> "Staged", lock |-> "NotLocked"],
                     [file |-> "Modified", tree |-> "Working", lock |-> "Locked"],
                     [file |-> "Unknown", tree |-> "Unmodified", lock |-> "Locked"],
                     [file |-> "Unknown", tree |-> "Unmodified", lock |-> "NotLocked"]}
               ELSE {[file |-> "Added", tree |-> "Staged", lock |-> "Unlockable"],
                     [file |-> "Modified", tree |-> "Working", lock |-> "Unlockable"]})}

RevertCaches ==
    UNION {{c \in [D -> UNION {RevertStates(f) : f \in D}] :
               \A f \in D : c[f] \in RevertStates(f)} : D \in SUBSET AllFiles}

InitRevert ==
    /\ GThreadPool = TRUE
    /\ bUsingGitLfsLocking \in BOOLEAN
    /\ CommandQueue = <<>>
    /\ Commands = [c \in CmdIds |-> BlankCommand]
    /\ nextCommand = 1
    /\ callbackOrder = <<>>
    /\ StateCache \in RevertCaches
    /\ IgnoreForceCache = {}
    /\ LockedFiles = LocksOf(StateCache)
    /\ ReadOnly = [f \in AllFiles |->
                     IsFileLFSLockable(f)
                     /\ ~(f \in DOMAIN LockedFiles /\ LockedFiles[f] = LockUser)]
    /\ syncCmd = 0
    /\ syncResult = [c \in CmdIds |-> "none"]
    /\ lastTick = NoTick
    /\ bPendingRestart = FALSE
    /\ UnlockFilesResult \in {"unset", "true"}
    /\ checkIn = NoCheckIn
    /\ OnDisk \in SUBSET AllFiles
    /\ IdleWorkers

NextRevert == RevertExecute

SpecRevert == InitRevert /\ [][NextRevert]_vars

----------------------------------------------------------------------------
\* FGitLFSLockedFilesCache::GetAllLocks

\* static const FTimespan CacheLimit, in seconds.
CacheLimit == 30

\* The clock readings the model allows.
MaxSteps == 5

\* Time passes.
AdvanceClock ==
    /\ now + Clock.step <= Clock.start + MaxSteps * Clock.step
    /\ now' = now + Clock.step
    /\ lastGetAllLocks' = NoCall
    /\ UNCHANGED <<queueVars, checkInVars, revertVars, LastUpdated, LastRefresh, lockCalls,
                   restVars>>

\* Lines 61-67: whether the call goes to the remote.
CacheExpired(bInvalidateCache, CurrentTime, updated) ==
    bInvalidateCache \/ CurrentTime - updated > CacheLimit

\* Lines 61-72 and 98-105: a pool thread enters GetAllLocks, reads the clock
\* and LastUpdated, and either returns the internal cache or goes on to
\* query the remote.
GetAllLocksBegin(t, bInvalidateCache) ==
    /\ lockCalls[t].pc = "idle"
    /\ LET bCacheExpired == CacheExpired(bInvalidateCache, now, LastUpdated)
       IN /\ lockCalls' = IF bCacheExpired
                          THEN [lockCalls EXCEPT ![t] =
                                   [pc |-> "GetLocks", CurrentTime |-> now,
                                    bInvalidateCache |-> bInvalidateCache]]
                          ELSE lockCalls
          /\ lastGetAllLocks' = [step |-> "begin", thread |-> t,
                                 bInvalidateCache |-> bInvalidateCache,
                                 bCacheExpired |-> bCacheExpired, subprocesses |-> 0,
                                 OutLocks |-> IF bCacheExpired THEN EmptyMap
                                              ELSE LockedFiles,
                                 remote |-> FALSE, fallback |-> FALSE,
                                 returned |-> ~bCacheExpired, ret |-> ~bCacheExpired]
    /\ UNCHANGED <<queueVars, checkInVars, revertVars, now, LastUpdated, LastRefresh,
                   restVars>>

\* The offline answer without lines 98-103.
OfflineLocks_NoInternalCache(fallback, cache) ==
    [f \in {x \in DOMAIN cache : fallback /\ cache[x] = LockUser} |-> LockUser]

\* Lines 82-103: the answer after a failed remote query. fallback says that
\* the '--cached' and the '--local' query both succeeded; GetLocks keeps
\* their lines owned by LockUser. Otherwise the answer is the internal cache.
OfflineLocks(fallback, cache) ==
    IF fallback
    THEN [f \in {x \in DOMAIN cache : cache[x] = LockUser} |-> LockUser]
    ELSE cache

\* Lines 75-80: what a successful remote query stores in LastUpdated.
StoredTime(CurrentTime, updated) == CurrentTime

\* Lines 75-105: 'git lfs locks' returns to the thread. On success the
\* thread stores the time it read when it entered and replaces the cache;
\* otherwise it asks for the --cached and --local locks of the user and,
\* failing that too, returns the internal cache.
GetAllLocksEnd(t, remote, locks, fallback) ==
    /\ lockCalls[t].pc = "GetLocks"
    /\ LET c == lockCalls[t]
           l == [locks |-> LockedFiles, ro |-> ReadOnly]
           l2 == IF remote THEN SetLockedFiles(l, locks) ELSE l
       IN /\ LastUpdated' = IF remote THEN StoredTime(c.CurrentTime, LastUpdated)
                            ELSE LastUpdated
          /\ LastRefresh' = IF remote THEN Max({LastRefresh, c.CurrentTime})
                            ELSE LastRefresh
          /\ LockedFiles' = l2.locks
          /\ ReadOnly' = l2.ro
          /\ lastGetAllLocks' =
                [step |-> "end", thread |-> t, bInvalidateCache |-> c.bInvalidateCache,
                 bCacheExpired |-> TRUE,
                 subprocesses |-> IF remote THEN 1 ELSE 3,
                 OutLocks |-> IF remote THEN locks
                              ELSE OfflineLocks(fallback, LockedFiles),
                 remote |-> remote, fallback |-> fallback,
                 returned |-> TRUE, ret |-> TRUE]
    /\ lockCalls' = [lockCalls EXCEPT ![t] = IdleCall]
    /\ UNCHANGED <<GThreadPool, bUsingGitLfsLocking, CommandQueue, Commands, nextCommand,
                   callbackOrder, StateCache, IgnoreForceCache, syncCmd, syncResult,
                   lastTick, checkInVars, revertVars, now, restVars>>

\* What the lock server may answer.
ServerLocks == {EmptyMap, [f \in {FileA} |-> OtherUser], [f \in {FileA} |-> LockUser]}

\* The provider with LFS locking on, before any command, with the
\* attributes of the given files as a fresh working copy has them.
InitIdle(files) ==
    /\ GThreadPool = TRUE
    /\ bUsingGitLfsLocking = TRUE
    /\ CommandQueue = <<>>
    /\ Commands = [c \in CmdIds |-> BlankCommand]
    /\ nextCommand = 1
    /\ callbackOrder = <<>>
    /\ StateCache = EmptyMap
    /\ IgnoreForceCache = {}
    /\ LockedFiles = EmptyMap
    /\ ReadOnly = [f \in files |-> IsFileLFSLockable(f)]
    /\ syncCmd = 0
    /\ syncResult = [c \in CmdIds |-> "none"]
    /\ lastTick = NoTick
    /\ bPendingRestart = FALSE
    /\ UnlockFilesResult = "unset"
    /\ checkIn = NoCheckIn
    /\ OnDisk = AllFiles
    /\ IdleWorkers

InitLocks == InitIdle(AllFiles)

NextLocks ==
    \/ AdvanceClock
    \/ \E t \in LockThreads, bInvalidateCache \in BOOLEAN :
          GetAllLocksBegin(t, bInvalidateCache)
    \/ \E t \in LockThreads, remote \in BOOLEAN :
       \E locks \in (IF remote THEN ServerLocks ELSE {EmptyMap}),
          fallback \in (IF remote THEN {FALSE} ELSE BOOLEAN) :
          GetAllLocksEnd(t, remote, locks, fallback)

SpecLocks == InitLocks /\ [][NextLocks]_vars

----------------------------------------------------------------------------
\* FGitLFSLockedFilesCache: SetLockedFiles, AddLockedFile, RemoveLockedFile

\* The files of the working copy the calls are about.
FileC == [stem |-> "Content/c", ext |-> ".uasset"]
LockCacheFiles == AllFiles \cup {FileC}

\* The lock maps a refresh may install.
LockMaps ==
    UNION {[D -> {LockUser, OtherUser}] : D \in SUBSET LockCacheFiles}

\* The variables the calls on the Lock Cache leave alone.
lockCacheOthers ==
    <<GThreadPool, bUsingGitLfsLocking, CommandQueue, Commands, nextCommand,
      callbackOrder, StateCache, IgnoreForceCache, syncCmd, syncResult, lastTick,
      checkInVars, revertVars, lockVars, checkOut, sync, connectVars, gitStatus, utilVars>>

\* SetLockedFiles(NewLocks), as GetAllLocks calls it with the server's answer.
SetLockedFilesCall(NewLocks) ==
    /\ LET l == SetLockedFiles([locks |-> LockedFiles, ro |-> ReadOnly], NewLocks)
       IN LockedFiles' = l.locks /\ ReadOnly' = l.ro
    /\ lockOp' = [op |-> "SetLockedFiles", FilePath |-> "", NewLocks |-> NewLocks]
    /\ UNCHANGED lockCacheOthers

\* AddLockedFile(FilePath, LockUser), as the check-out worker calls it with
\* the provider's lock user.
AddLockedFileCall(f) ==
    /\ LET l == AddLockedFile([locks |-> LockedFiles, ro |-> ReadOnly], f, LockUser)
       IN LockedFiles' = l.locks /\ ReadOnly' = l.ro
    /\ lockOp' = [op |-> "AddLockedFile", FilePath |-> f.stem, NewLocks |-> EmptyMap]
    /\ UNCHANGED lockCacheOthers

\* RemoveLockedFile(FilePath), as UnlockFiles calls it.
RemoveLockedFileCall(f) ==
    /\ LET l == RemoveLockedFile([locks |-> LockedFiles, ro |-> ReadOnly], f)
       IN LockedFiles' = l.locks /\ ReadOnly' = l.ro
    /\ lockOp' = [op |-> "RemoveLockedFile", FilePath |-> f.stem, NewLocks |-> EmptyMap]
    /\ UNCHANGED lockCacheOthers

NextLockCache ==
    \/ \E NewLocks \in LockMaps : SetLockedFilesCall(NewLocks)
    \/ \E f \in LockCacheFiles : AddLockedFileCall(f)
    \/ \E f \in LockCacheFiles : RemoveLockedFileCall(f)

InitLockCache == InitIdle(LockCacheFiles)

SpecLockCache == InitLockCache /\ [][NextLockCache]_vars

----------------------------------------------------------------------------
\* FGitLFSCheckOutWorker, one check-out after another

CheckOutFileLists ==
    {<<>>, <<FileA>>, <<FileB>>, <<FileC>>, <<FileA, FileB>>, <<FileA, FileC>>}

\* A pool thread runs FGitLFSCheckOutWorker::Execute.
CheckOutRun(Files, lockOk) ==
    /\ LET cmd == [NewCommand(Files) EXCEPT !.Concurrency = "Asynchronous"]
           r == CheckOutExecute(cmd, lockOk, [locks |-> LockedFiles, ro |-> ReadOnly])
       IN /\ checkOut' = [ran |-> TRUE, Files |-> Files, before |-> LockedFiles,
                          lfsLock |-> r.lfsLock, States |-> r.States, ret |-> r.ret]
          /\ LockedFiles' = r.l.locks
          /\ ReadOnly' = r.l.ro
    /\ UNCHANGED <<GThreadPool, bUsingGitLfsLocking, CommandQueue, Commands, nextCommand,
                   callbackOrder, StateCache, IgnoreForceCache, syncCmd, syncResult,
                   lastTick, checkInVars, revertVars, lockVars, lockOp, sync,
                   connectVars, gitStatus, utilVars>>

\* Another user takes or releases the lock of a file the user does not
\* hold, and a refresh brings it to the Lock Cache.
OtherUserLocks(f, bLocked) ==
    /\ ~LockedBySelf(LockedFiles, f)
    /\ LET NewLocks == [x \in (DOMAIN LockedFiles \ {f}) \cup (IF bLocked THEN {f} ELSE {})
                          |-> IF x = f THEN OtherUser ELSE LockedFiles[x]]
           l == SetLockedFiles([locks |-> LockedFiles, ro |-> ReadOnly], NewLocks)
       IN LockedFiles' = l.locks /\ ReadOnly' = l.ro
    /\ checkOut' = NoCheckOut
    /\ UNCHANGED <<GThreadPool, bUsingGitLfsLocking, CommandQueue, Commands, nextCommand,
                   callbackOrder, StateCache, IgnoreForceCache, syncCmd, syncResult,
                   lastTick, checkInVars, revertVars, lockVars, lockOp, sync,
                   connectVars, gitStatus, utilVars>>

\* FGitLFSCommandHelpers::UnlockFiles releases a file the user holds and
\* prunes it from the Lock Cache.
UnlockRun(f) ==
    /\ LockedBySelf(LockedFiles, f)
    /\ LET l == RemoveLockedFile([locks |-> LockedFiles, ro |-> ReadOnly], f)
       IN LockedFiles' = l.locks /\ ReadOnly' = l.ro
    /\ checkOut' = NoCheckOut
    /\ UNCHANGED <<GThreadPool, bUsingGitLfsLocking, CommandQueue, Commands, nextCommand,
                   callbackOrder, StateCache, IgnoreForceCache, syncCmd, syncResult,
                   lastTick, checkInVars, revertVars, lockVars, lockOp, sync,
                   connectVars, gitStatus, utilVars>>

NextCheckOut ==
    \/ \E Files \in CheckOutFileLists, lockOk \in BOOLEAN : CheckOutRun(Files, lockOk)
    \/ \E f \in {FileA, FileC}, bLocked \in BOOLEAN : OtherUserLocks(f, bLocked)
    \/ \E f \in LockCacheFiles : UnlockRun(f)

InitCheckOut == InitIdle(LockCacheFiles)

SpecCheckOut == InitCheckOut /\ [][NextCheckOut]_vars

----------------------------------------------------------------------------
\* FGitLFSSyncWorker

\* FGitLFSCommandHelpers::PullOrigin on a non-empty InFiles: the files that
\* differ from the upstream join OutFiles, which is the caller's list. g
\* holds whether the branch has a remote, the outcome of the diff against
\* it, the files that differ and the outcome of 'git pull'.
PullOrigin_NoRestartCheck(InFiles, pendingRestart, g) ==
    IF ~g.remote
    THEN [ok |-> FALSE, trace |-> <<>>, errors |-> {}, dialog |-> "none",
          OutFiles |-> InFiles]
    ELSE IF ~Succeeded(g.diff)
    THEN [ok |-> FALSE, trace |-> <<"diff">>, errors |-> ErrorLines(g.diff),
          dialog |-> "none", OutFiles |-> InFiles]
    ELSE IF g.different = {}
    THEN [ok |-> TRUE, trace |-> <<"diff">>, errors |-> {}, dialog |-> "none",
          OutFiles |-> InFiles]
    ELSE [ok |-> Succeeded(g.pull), trace |-> <<"diff", "pull">>,
          errors |-> ErrorLines(g.pull), dialog |-> "none",
          OutFiles |-> InFiles \cup g.different]

PullOrigin(InFiles, pendingRestart, g) ==
    IF pendingRestart
    THEN [ok |-> FALSE, trace |-> <<>>, errors |-> {},
          dialog |-> "Binaries Update Required", OutFiles |-> InFiles]
    ELSE IF ~g.remote
    THEN [ok |-> FALSE, trace |-> <<>>, errors |-> {}, dialog |-> "none",
          OutFiles |-> InFiles]
    ELSE IF ~Succeeded(g.diff)
    THEN [ok |-> FALSE, trace |-> <<"diff">>, errors |-> ErrorLines(g.diff),
          dialog |-> "none", OutFiles |-> InFiles]
    ELSE IF g.different = {}
    THEN [ok |-> TRUE, trace |-> <<"diff">>, errors |-> {}, dialog |-> "none",
          OutFiles |-> InFiles]
    ELSE [ok |-> Succeeded(g.pull), trace |-> <<"diff", "pull">>,
          errors |-> ErrorLines(g.pull), dialog |-> "none",
          OutFiles |-> InFiles \cup g.different]

\* FGitLFSSourceControlUtils::CheckRemote: the log of the current upstream
\* lists '.checksum' or a path under 'Binaries/' or 'Plugins/'.
CheckRemote(pendingRestart, g) == pendingRestart \/ (g.remote /\ g.newerBinaries)

\* FGitLFSSyncWorker::Execute
SyncWorkerExecute(Files, g, pendingRestart) ==
    IF ~Succeeded(g.fetch)
    THEN [ran |-> TRUE, Files |-> Files, bPendingRestart |-> pendingRestart,
          fetched |-> FALSE, updated |-> {}, trace |-> <<"fetch">>, dialog |-> "none",
          errors |-> ErrorLines(g.fetch), ret |-> FALSE, pending |-> pendingRestart]
    ELSE IF Len(Files) = 0
    THEN [ran |-> TRUE, Files |-> Files, bPendingRestart |-> pendingRestart,
          fetched |-> TRUE, updated |-> {}, trace |-> <<"fetch">>, dialog |-> "none",
          errors |-> {}, ret |-> TRUE, pending |-> pendingRestart]
    ELSE LET p == PullOrigin(Range(Files), pendingRestart, g)
             e == p.errors \cup ErrorLines(g.status)
         IN [ran |-> TRUE, Files |-> Files, bPendingRestart |-> pendingRestart,
             fetched |-> TRUE, updated |-> p.OutFiles,
             trace |-> <<"fetch">> \o p.trace \o <<"status", "log">>,
             dialog |-> p.dialog, errors |-> e,
             ret |-> RemoveRedundantErrors(e, p.ok),
             pending |-> CheckRemote(pendingRestart, g)]

SyncFileLists == {<<>>, <<FileA>>, <<FileB>>, <<FileA, FileB>>}

\* A pool thread runs FGitLFSSyncWorker::Execute, with every outcome of the
\* git invocations it reaches.
SyncRun ==
    /\ \E Files \in SyncFileLists, fetch \in {"ok", "other"} :
       LET pulls == fetch = "ok" /\ Len(Files) > 0
           asks == pulls /\ ~bPendingRestart
       IN
       \E remote \in (IF pulls THEN BOOLEAN ELSE {FALSE}) :
       \E diff \in (IF asks /\ remote THEN {"ok", "other"} ELSE {"ok"}) :
       \E different \in (IF asks /\ remote /\ diff = "ok" THEN SUBSET AllFiles ELSE {{}}) :
       \E pull \in (IF different # {} THEN {"ok", "other", "none"} ELSE {"ok"}),
          status \in (IF pulls THEN {"ok", "outside", "other"} ELSE {"ok"}),
          newerBinaries \in (IF pulls /\ remote THEN BOOLEAN ELSE {FALSE}) :
          LET g == [fetch |-> fetch, remote |-> remote, diff |-> diff,
                    different |-> different, pull |-> pull, status |-> status,
                    newerBinaries |-> newerBinaries]
              r == SyncWorkerExecute(Files, g, bPendingRestart)
          IN /\ sync' = [k \in DOMAIN NoSync |-> r[k]]
             /\ bPendingRestart' = r.pending
    /\ UNCHANGED <<queueVars, UnlockFilesResult, checkIn, revertVars, lockVars, lockOp,
                   checkOut, connectVars, gitStatus, utilVars>>

\* A status refresh that runs CheckRemote after a fetch.
StatusRefresh(newerBinaries) ==
    /\ bPendingRestart' = CheckRemote(bPendingRestart,
                                      [remote |-> TRUE, newerBinaries |-> newerBinaries])
    /\ sync' = NoSync
    /\ UNCHANGED <<queueVars, UnlockFilesResult, checkIn, revertVars, lockVars, lockOp,
                   checkOut, connectVars, gitStatus, utilVars>>

NextSync ==
    \/ SyncRun
    \/ \E newerBinaries \in BOOLEAN : StatusRefresh(newerBinaries)

SpecSync == InitLocks /\ [][NextSync]_vars

----------------------------------------------------------------------------

\* FGitLFSConnectWorker, through Provider::Execute

\* FGitLFSConnectWorker::Execute. remote is the answer to 'git ls-remote'.
ConnectWorkerExecute(cmd, remote) ==
    IF cmd.Concurrency = "Synchronous"
    THEN [cmd EXCEPT !.bCommandSuccessful = TRUE]
    ELSE IF cmd.PathToGitBinary = ""
    THEN [cmd EXCEPT !.bCommandSuccessful = FALSE]
    ELSE [cmd EXCEPT !.lsRemote = remote, !.bCommandSuccessful = (remote = "up")]

\* FGitLFSSourceControlCommand::DoWork
ConnectDoWork(cmd, remote) ==
    [ConnectWorkerExecute(cmd, remote) EXCEPT !.bExecuteProcessed = TRUE]

\* The ECommandResult of a command that was not cancelled.
ConnectResult(cmd) == IF cmd.bCommandSuccessful THEN "Succeeded" ELSE "Failed"

\* Provider::Execute of a Connect operation. The constructor leaves
\* Concurrency at Synchronous; both ExecuteSynchronousCommand and Execute
\* call IssueCommand(Command), which queues the command when there is a
\* thread pool and runs DoWork on the spot otherwise.
IssueConnect(InConcurrency, PathToGitBinary, remote) ==
    /\ nextConnect <= MaxConnects
    /\ \A c \in ConnectIds :
          (connects[c].issued /\ connects[c].InConcurrency = "Synchronous")
             => connects[c].result # "none"
    /\ LET cmd == [NoConnect EXCEPT !.issued = TRUE, !.InConcurrency = InConcurrency,
                                    !.PathToGitBinary = PathToGitBinary]
       IN IF GThreadPool
          THEN /\ remote = "n/a"
               /\ connects' = [connects EXCEPT ![nextConnect] =
                                  [cmd EXCEPT !.onPool = TRUE]]
          ELSE LET done == ConnectDoWork(cmd, remote)
               IN connects' = [connects EXCEPT ![nextConnect] =
                                  [done EXCEPT !.result = ConnectResult(done)]]
    /\ nextConnect' = nextConnect + 1

ConnectIssue(InConcurrency, PathToGitBinary, remote) ==
    /\ IssueConnect(InConcurrency, PathToGitBinary, remote)
    /\ UNCHANGED <<queueVars, checkInVars, revertVars, lockVars, lockOp, checkOut, sync,
                   gitStatus, utilVars>>

\* FGitLFSSourceControlCommand::DoThreadedWork on a pool thread: Concurrency
\* becomes Asynchronous, then DoWork.
ConnectThreadedWork(c, remote) ==
    /\ connects[c].onPool
    /\ ~connects[c].bExecuteProcessed
    /\ connects' = [connects EXCEPT ![c] =
          ConnectDoWork([connects[c] EXCEPT !.Concurrency = "Asynchronous"],
                        remote)]
    /\ UNCHANGED <<queueVars, checkInVars, revertVars, lockVars, lockOp, checkOut, sync,
                   nextConnect, gitStatus, utilVars>>

\* Tick finds the command processed and hands its result to the delegate
\* or, for a synchronous Execute, to the wait loop.
ConnectReturn(c) ==
    /\ connects[c].onPool
    /\ connects[c].bExecuteProcessed
    /\ connects[c].result = "none"
    /\ connects' = [connects EXCEPT ![c].result = ConnectResult(connects[c])]
    /\ UNCHANGED <<queueVars, checkInVars, revertVars, lockVars, lockOp, checkOut, sync,
                   nextConnect, gitStatus, utilVars>>

NextConnect ==
    \/ \E InConcurrency \in {"Synchronous", "Asynchronous"},
          PathToGitBinary \in {"", "git"}, remote \in {"n/a", "up", "down"} :
          ConnectIssue(InConcurrency, PathToGitBinary, remote)
    \/ \E c \in ConnectIds, remote \in {"up", "down"} : ConnectThreadedWork(c, remote)
    \/ \E c \in ConnectIds : ConnectReturn(c)

InitConnect ==
    \E pool \in BOOLEAN :
        /\ InitIdle(AllFiles)
        /\ GThreadPool = pool

SpecConnect == InitConnect /\ [][NextConnect]_vars

----------------------------------------------------------------------------

\* FGitLFSSourceControlUtils::ParseGitStatus

\* EGitLFSFileState and EGitLFSTreeState
FileStates == {"Unset", "Unknown", "Added", "Copied", "Deleted", "Modified", "Renamed",
               "Missing", "Unmerged"}

TreeStates == {"Unset", "Unmodified", "Working", "Staged", "Untracked", "Ignored",
               "NotInRepo"}

\* The characters of the two status columns.
StatusChars == {" ", "M", "A", "D", "R", "C", "U", "?", "!"}

StatusLines == {l \in StatusChars \X StatusChars : l # <<" ", " ">>}

\* What an uninitialized local of an enum type can hold when it is read: any
\* enumerator, or a bit pattern that is none of them.
IndeterminateFileStates == FileStates \cup {"Indeterminate"}

IndeterminateTreeStates == TreeStates \cup {"Indeterminate"}

\* ParseGitStatus without the test of the working-copy column for 'D'.
ParseGitStatus_NoMissing(Line, OutFileState, OutTreeState) ==
    LET IndexState == Line[1]
        WCopyState == Line[2]
        Tree == IF IndexState = " " THEN "Working"
                ELSE IF WCopyState = " " THEN "Staged"
                ELSE OutTreeState
    IN  IF \/ IndexState = "U"
           \/ WCopyState = "U"
           \/ (IndexState = "A" /\ WCopyState = "A")
           \/ (IndexState = "D" /\ WCopyState = "D")
        THEN [FileState |-> "Unmerged", TreeState |-> "Working"]
        ELSE IF IndexState = "?" \/ WCopyState = "?"
        THEN [FileState |-> "Unknown", TreeState |-> "Untracked"]
        ELSE IF IndexState = "!" \/ WCopyState = "!"
        THEN [FileState |-> "Unknown", TreeState |-> "Ignored"]
        ELSE IF IndexState = "A"
        THEN [FileState |-> "Added", TreeState |-> Tree]
        ELSE IF IndexState = "D"
        THEN [FileState |-> "Deleted", TreeState |-> Tree]
        ELSE IF IndexState = "M" \/ WCopyState = "M"
        THEN [FileState |-> "Modified", TreeState |-> Tree]
        ELSE IF IndexState = "R"
        THEN [FileState |-> "Renamed", TreeState |-> Tree]
        ELSE IF IndexState = "C"
        THEN [FileState |-> "Copied", TreeState |-> Tree]
        ELSE [FileState |-> "Unknown", TreeState |-> Tree]

\* ParseGitStatus(Line, OutFileState, OutTreeState): the values of the two
\* out-parameters on return, given their values on entry.
ParseGitStatus(Line, OutFileState, OutTreeState) ==
    LET IndexState == Line[1]
        WCopyState == Line[2]
        Tree == IF IndexState = " " THEN "Working"
                ELSE IF WCopyState = " " THEN "Staged"
                ELSE OutTreeState
    IN  IF \/ IndexState = "U"
           \/ WCopyState = "U"
           \/ (IndexState = "A" /\ WCopyState = "A")
           \/ (IndexState = "D" /\ WCopyState = "D")
        THEN [FileState |-> "Unmerged", TreeState |-> "Working"]
        ELSE IF IndexState = "?" \/ WCopyState = "?"
        THEN [FileState |-> "Unknown", TreeState |-> "Untracked"]
        ELSE IF IndexState = "!" \/ WCopyState = "!"
        THEN [FileState |-> "Unknown", TreeState |-> "Ignored"]
        ELSE IF IndexState = "A"
        THEN [FileState |-> "Added", TreeState |-> Tree]
        ELSE IF IndexState = "D"
        THEN [FileState |-> "Deleted", TreeState |-> Tree]
        ELSE IF WCopyState = "D"
        THEN [FileState |-> "Missing", TreeState |-> Tree]
        ELSE IF IndexState = "M" \/ WCopyState = "M"
        THEN [FileState |-> "Modified", TreeState |-> Tree]
        ELSE IF IndexState = "R"
        THEN [FileState |-> "Renamed", TreeState |-> Tree]
        ELSE IF IndexState = "C"
        THEN [FileState |-> "Copied", TreeState |-> Tree]
        ELSE [FileState |-> "Unknown", TreeState |-> Tree]

\* ParseFileStatusResult / ParseDirectoryStatusResult read one line of the
\* porcelain output.
ReadStatusLine(Line) ==
    /\ gitStatus.Line = NoStatus.Line
    /\ gitStatus' = [gitStatus EXCEPT !.Line = Line]
    /\ UNCHANGED <<queueVars, checkInVars, revertVars, lockVars, lockOp, checkOut, sync,
                   connectVars, utilVars>>

\* The call of ParseGitStatus on the line, with the caller's two locals
\* 'EGitLFSFileState FileState; EGitLFSTreeState TreeState;' as they are at
\* the call: declared without an initializer.
ParseStatusLine(FileState, TreeState) ==
    /\ ~gitStatus.parsed
    /\ gitStatus.Line \in StatusLines
    /\ LET out == ParseGitStatus(gitStatus.Line, FileState, TreeState)
       IN gitStatus' = [gitStatus EXCEPT !.parsed = TRUE, !.found = TRUE,
                                         !.FileState = out.FileState,
                                         !.TreeState = out.TreeState]
    /\ UNCHANGED <<queueVars, checkInVars, revertVars, lockVars, lockOp, checkOut, sync,
                   connectVars, utilVars>>

\* ParseFileStatusResult for a requested file that has no line in the
\* porcelain output: the state comes from FPaths::FileExists.
StatusNotFound(exists) ==
    /\ ~gitStatus.parsed
    /\ gitStatus.Line = NoStatus.Line
    /\ gitStatus' = [gitStatus EXCEPT !.parsed = TRUE, !.exists = exists,
                                      !.FileState = "Unknown",
                                      !.TreeState = IF exists THEN "Unmodified"
                                                    ELSE "NotInRepo"]
    /\ UNCHANGED <<queueVars, checkInVars, revertVars, lockVars, lockOp, checkOut, sync,
                   connectVars, utilVars>>

\* The caller moves on to the next line.
NextStatusLine ==
    /\ gitStatus.parsed
    /\ gitStatus.index + 1 < MaxLines
    /\ gitStatus' = [NoStatus EXCEPT !.index = gitStatus.index + 1]
    /\ UNCHANGED <<queueVars, checkInVars, revertVars, lockVars, lockOp, checkOut, sync,
                   connectVars, utilVars>>

NextParse ==
    \/ \E Line \in StatusLines : ReadStatusLine(Line)
    \/ \E FileState \in IndeterminateFileStates, TreeState \in IndeterminateTreeStates :
          ParseStatusLine(FileState, TreeState)
    \/ \E exists \in BOOLEAN : StatusNotFound(exists)
    \/ NextStatusLine

SpecParse == InitLocks /\ [][NextParse]_vars

----------------------------------------------------------------------------

\* FGitLFSSourceControlState::GetGitState

\* EGitLFSLockState and EGitLFSRemoteState
LockStates == {"Unset", "Unknown", "Unlockable", "NotLocked", "Locked", "LockedOther"}

RemoteStates == {"Unset", "UpToDate", "NotAtHead", "NotLatest"}

\* FGitLFSSourceControlState::CanCheckout
CanCheckout(st) ==
    IF st.LockState = "Unlockable" THEN FALSE
    ELSE st.LockState = "NotLocked" /\ IsCurrent(st)

\* GetGitState with the lock test ahead of the first RemoteState test.
GetGitState_LockFirst(st) ==
    IF st.LockState = "LockedOther" THEN "LockedOther"
    ELSE IF st.RemoteState = "NotAtHead" THEN "NotAtHead"
    ELSE IF st.RemoteState = "NotLatest" THEN "NotLatest"
    ELSE IF st.FileState \in {"Unmerged", "Added", "Deleted", "Modified"} THEN st.FileState
    ELSE IF st.TreeState = "Untracked" THEN "Untracked"
    ELSE IF st.LockState = "Locked" THEN "CheckedOut"
    ELSE IF IsSourceControlled(st)
    THEN IF CanCheckout(st) THEN "Lockable" ELSE "Unmodified"
    ELSE "None"

\* FGitLFSSourceControlState::GetGitState
GetGitState(st) ==
    IF st.RemoteState = "NotAtHead" THEN "NotAtHead"
    ELSE IF st.LockState = "LockedOther" THEN "LockedOther"
    ELSE IF st.RemoteState = "NotLatest" THEN "NotLatest"
    ELSE IF st.FileState = "Unmerged" THEN "Unmerged"
    ELSE IF st.FileState = "Added" THEN "Added"
    ELSE IF st.FileState = "Deleted" THEN "Deleted"
    ELSE IF st.FileState = "Modified" THEN "Modified"
    ELSE IF st.TreeState = "Untracked" THEN "Untracked"
    ELSE IF st.LockState = "Locked" THEN "CheckedOut"
    ELSE IF IsSourceControlled(st)
    THEN IF CanCheckout(st) THEN "Lockable" ELSE "Unmodified"
    ELSE "None"

\* The variables the state object's actions leave alone.
viewOthers ==
    <<queueVars, checkInVars, revertVars, lockVars, lockOp, checkOut, sync, connectVars,
      gitStatus, batch, refreshOp, unlockOp,
      runner,
      statusOp,
      remoteOp,
      cacheOp,
      clOp,
      execOp>>

\* A status refresh stages FileState and TreeState for the file.
StatusUpdate(file, tree) ==
    /\ view' = [State |-> [view.State EXCEPT !.FileState = file, !.TreeState = tree],
                shown |-> "none"]
    /\ UNCHANGED viewOthers

\* A lock query or a lock operation stages LockState and LockUser.
LockUpdate(lock, user) ==
    /\ view' = [State |-> [view.State EXCEPT !.LockState = lock, !.LockUser = user],
                shown |-> "none"]
    /\ UNCHANGED viewOthers

\* CheckRemote stages RemoteState and HeadBranch.
RemoteUpdate(remote, branch) ==
    /\ view' = [State |-> [view.State EXCEPT !.RemoteState = remote,
                                             !.HeadBranch = branch],
                shown |-> "none"]
    /\ UNCHANGED viewOthers

\* The editor asks for the file's icon, tooltip or display name.
GetGitStateCall ==
    /\ view.shown = "none"
    /\ view' = [view EXCEPT !.shown = GetGitState(view.State)]
    /\ UNCHANGED viewOthers

NextView ==
    \/ \E file \in FileStates, tree \in TreeStates : StatusUpdate(file, tree)
    \/ \E lock \in LockStates, user \in {"", LockUser, "bob"} : LockUpdate(lock, user)
    \/ \E remote \in RemoteStates, branch \in {"", "origin/main"} :
          RemoteUpdate(remote, branch)
    \/ GetGitStateCall

SpecView == InitLocks /\ [][NextView]_vars

----------------------------------------------------------------------------

\* FGitLFSCommand::BatchRuns

MaxFilesPerBatch == 50

\* The file list lengths handed to Run.
FileListLengths ==
    {0, 1, MaxFilesPerBatch - 1, MaxFilesPerBatch, MaxFilesPerBatch + 1,
     2 * MaxFilesPerBatch, 2 * MaxFilesPerBatch + 1, MaxFiles}

\* The process exit codes the model draws.
ReturnCodes == {0, 1}

\* The while loop's condition with a stop at the first failed batch.
BatchLoopCondition_StopOnFailure(b) ==
    b.FileCount < Len(b.InternalFiles) /\ b.bResult

\* The condition of the while loop of BatchRuns.
BatchLoopCondition(b) == b.FileCount < Len(b.InternalFiles)

\* The inner for loop: the files of the batch that starts at FileCount.
FilesInBatch(InternalFiles, FileCount) ==
    SubSeq(InternalFiles, FileCount + 1,
           IF FileCount + MaxFilesPerBatch < Len(InternalFiles)
           THEN FileCount + MaxFilesPerBatch ELSE Len(InternalFiles))

\* FGitLFSCommand::RunImpl: success iff the exit code is the expected one.
RunImpl(b, ReturnCode) == ReturnCode = b.InternalExpectedReturnCode

batchOthers ==
    <<queueVars, checkInVars, revertVars, lockVars, lockOp, checkOut, sync, connectVars,
      gitStatus, view, refreshOp, unlockOp,
      runner,
      statusOp,
      remoteOp,
      cacheOp,
      clOp,
      execOp>>

\* FGitLFSCommand::Run with a list of n files (the file at position i is i).
BatchRunsCall(n, expected) ==
    /\ ~batch.called
    /\ batch' = [NoBatch EXCEPT !.called = TRUE, !.InternalFiles = [i \in 1..n |-> i],
                                !.InternalExpectedReturnCode = expected]
    /\ UNCHANGED batchOthers

\* A list of at most MaxFilesPerBatch files: 'return RunImpl(Args)'.
BatchRunsSingle(ReturnCode) ==
    /\ batch.called /\ ~batch.done
    /\ Len(batch.InternalFiles) <= MaxFilesPerBatch
    /\ batch' = [batch EXCEPT
          !.runs = <<[files |-> batch.InternalFiles, rc |-> ReturnCode]>>,
          !.bResult = RunImpl(batch, ReturnCode),
          !.done = TRUE,
          !.ret = RunImpl(batch, ReturnCode)]
    /\ UNCHANGED batchOthers

\* One iteration of the while loop.
BatchRunsIteration(ReturnCode) ==
    /\ batch.called /\ ~batch.done
    /\ Len(batch.InternalFiles) > MaxFilesPerBatch
    /\ BatchLoopCondition(batch)
    /\ LET files == FilesInBatch(batch.InternalFiles, batch.FileCount)
       IN batch' = [batch EXCEPT
             !.runs = Append(@, [files |-> files, rc |-> ReturnCode]),
             !.FileCount = @ + Len(files),
             !.bResult = @ /\ RunImpl(batch, ReturnCode)]
    /\ UNCHANGED batchOthers

\* The loop is left: 'return bResult'.
BatchRunsReturn ==
    /\ batch.called /\ ~batch.done
    /\ Len(batch.InternalFiles) > MaxFilesPerBatch
    /\ ~BatchLoopCondition(batch)
    /\ batch' = [batch EXCEPT !.done = TRUE, !.ret = batch.bResult]
    /\ UNCHANGED batchOthers

NextBatch ==
    \/ \E n \in FileListLengths, expected \in ReturnCodes : BatchRunsCall(n, expected)
    \/ \E ReturnCode \in ReturnCodes : BatchRunsSingle(ReturnCode)
    \/ \E ReturnCode \in ReturnCodes : BatchRunsIteration(ReturnCode)
    \/ BatchRunsReturn

SpecBatch == InitLocks /\ [][NextBatch]_vars

----------------------------------------------------------------------------

\* FGitLFSCopyWorker and FGitLFSUpdateStatusWorker

\* RemoveRedundantErrors on the lines of Command.ResultInfo.ErrorMessages:
\* the lines that stay and the lines that go to InfoMessages.
MoveRedundantErrors(errors) ==
    [errors |-> errors \ {"outside"}, infos |-> errors \cap {"outside"}]

\* FGitLFSCopyWorker::Execute. add and status are the outcomes of 'git add'
\* and of the status refresh.
CopyWorkerExecute(Files, add, status) ==
    IF Files = <<>>
    THEN [NoRefresh EXCEPT !.ran = TRUE, !.worker = "Copy", !.ret = TRUE]
    ELSE IF Succeeded(add)
    THEN [NoRefresh EXCEPT !.ran = TRUE, !.worker = "Copy", !.Files = Files,
                           !.trace = <<"add">>,
                           !.bCommandSuccessful = TRUE, !.ret = TRUE]
    ELSE LET e == ErrorLines(add) \cup ErrorLines(status)
             moved == MoveRedundantErrors(e)
         IN [ran |-> TRUE, worker |-> "Copy", Files |-> Files, Ignoredfiles |-> {},
             bUpdateHistory |-> FALSE, trace |-> <<"add", "status">>,
             refreshed |-> TRUE,
             collected |-> e, errors |-> moved.errors, infos |-> moved.infos,
             bCommandSuccessful |-> RemoveRedundantErrors(e, FALSE),
             ret |-> FALSE]

\* FGitLFSUpdateStatusWorker::Execute. The value RunUpdateStatus returns is
\* assigned to Command.bCommandSuccessful after RemoveRedundantErrors ran
\* inside it.
UpdateStatusWorkerExecute(Files, Ignoredfiles, status, bUpdateHistory, history) ==
    IF Files = <<>> /\ Ignoredfiles # {}
    THEN [NoRefresh EXCEPT !.ran = TRUE, !.worker = "UpdateStatus",
                           !.Ignoredfiles = Ignoredfiles,
                           !.bUpdateHistory = bUpdateHistory,
                           !.bCommandSuccessful = TRUE, !.ret = TRUE]
    ELSE LET e == ErrorLines(status)
             moved == MoveRedundantErrors(e)
             bSuccess == Succeeded(status)
             withHistory == Files # <<>> /\ bSuccess /\ bUpdateHistory
             ok == IF withHistory THEN bSuccess /\ Succeeded(history) ELSE bSuccess
         IN [ran |-> TRUE, worker |-> "UpdateStatus", Files |-> Files,
             Ignoredfiles |-> Ignoredfiles, bUpdateHistory |-> bUpdateHistory,
             trace |-> <<"status">> \o (IF withHistory THEN <<"log">> ELSE <<>>),
             refreshed |-> TRUE, collected |-> e,
             errors |-> moved.errors
                          \cup (IF withHistory THEN ErrorLines(history) ELSE {}),
             infos |-> moved.infos,
             bCommandSuccessful |-> ok, ret |-> ok]

refreshOthers ==
    <<queueVars, checkInVars, revertVars, lockVars, lockOp, checkOut, sync, connectVars,
      gitStatus, view, batch, unlockOp,
      runner,
      statusOp,
      remoteOp,
      cacheOp,
      clOp,
      execOp>>

RefreshFileLists ==
    {<<>>, <<FileA>>, <<FileB>>, <<FileC>>, <<FileA, FileB>>, <<FileB, FileA>>,
     <<FileA, FileC>>}

\* A pool thread runs FGitLFSCopyWorker::Execute.
CopyRun(Files) ==
    \E add \in (IF Files = <<>> THEN {"ok"} ELSE {"ok", "outside", "other"}) :
    \E status \in (IF Files # <<>> /\ add # "ok"
                   THEN {"ok", "none", "outside", "other"} ELSE {"ok"}) :
        /\ refreshOp' = CopyWorkerExecute(Files, add, status)
        /\ UNCHANGED refreshOthers

\* A pool thread runs FGitLFSUpdateStatusWorker::Execute.
UpdateStatusRun(Files, Ignoredfiles) ==
    /\ Ignoredfiles \cap Range(Files) = {}
    /\ \E status \in (IF Files = <<>> /\ Ignoredfiles # {}
                      THEN {"ok"} ELSE {"ok", "none", "outside", "other"}),
          bUpdateHistory \in BOOLEAN :
       \E history \in (IF Files # <<>> /\ status = "ok" /\ bUpdateHistory
                       THEN {"ok", "other"} ELSE {"ok"}) :
          /\ refreshOp' = UpdateStatusWorkerExecute(Files, Ignoredfiles, status,
                                                  bUpdateHistory, history)
          /\ UNCHANGED refreshOthers

NextRefresh ==
    \/ \E Files \in RefreshFileLists : CopyRun(Files)
    \/ \E Files \in RefreshFileLists, Ignoredfiles \in SUBSET AllFiles :
          UpdateStatusRun(Files, Ignoredfiles)

SpecRefresh == InitLocks /\ [][NextRefresh]_vars

----------------------------------------------------------------------------

\* FGitLFSCommandHelpers::UnlockFiles, call after call

unlockOthers ==
    <<GThreadPool, bUsingGitLfsLocking, CommandQueue, Commands, nextCommand,
      callbackOrder, StateCache, IgnoreForceCache, syncCmd, syncResult, lastTick,
      bPendingRestart, checkIn, revertVars, lockVars, lockOp, checkOut, sync,
      connectVars, gitStatus, view, batch, refreshOp,
      runner,
      statusOp,
      remoteOp,
      cacheOp,
      clOp,
      execOp>>

\* A check-out locked the file: FGitLFSLockedFilesCache::AddLockedFile.
LockFileCall(f) ==
    /\ f \notin DOMAIN LockedFiles
    /\ LET l == AddLockedFile([locks |-> LockedFiles, ro |-> ReadOnly], f, LockUser)
       IN LockedFiles' = l.locks /\ ReadOnly' = l.ro
    /\ UNCHANGED <<UnlockFilesResult, unlockOp, unlockOthers>>

\* A worker (CheckIn, Revert) calls UnlockFiles on the given files. outcome
\* is the result of 'lfs unlock' if the call runs it.
UnlockFilesCall(files, outcome) ==
    /\ outcome \in (IF files # {} /\ UnlockFilesResult = "unset"
                    THEN {"ok", "other"} ELSE {"none"})
    /\ LET r == UnlockFiles(files, UnlockFilesResult, outcome,
                            [locks |-> LockedFiles, ro |-> ReadOnly])
       IN /\ LockedFiles' = r.l.locks
          /\ ReadOnly' = r.l.ro
          /\ UnlockFilesResult' = r.static
          /\ unlockOp' = [called |-> TRUE, Files |-> files, invoked |-> r.invoked,
                          outcome |-> outcome, pruned |-> r.pruned,
                          ret |-> IF files = {} THEN TRUE ELSE r.static = "true"]
    /\ UNCHANGED unlockOthers

NextUnlock ==
    \/ \E f \in LockCacheFiles : LockFileCall(f)
    \/ \E files \in SUBSET LockCacheFiles, outcome \in {"ok", "other", "none"} :
          UnlockFilesCall(files, outcome)

SpecUnlock == InitLockCache /\ [][NextUnlock]_vars

----------------------------------------------------------------------------

\* FGitLFSSourceControlRunner: the periodic refresh

runnerOthers ==
    <<GThreadPool, bUsingGitLfsLocking, CommandQueue, Commands, nextCommand,
      callbackOrder, StateCache, IgnoreForceCache, LockedFiles, ReadOnly, syncCmd,
      syncResult, lastTick,
      bPendingRestart, UnlockFilesResult, checkIn, revertVars, lockVars, lockOp,
      checkOut, sync, connectVars, gitStatus, view, batch, refreshOp, unlockOp,
      statusOp,
      remoteOp,
      cacheOp,
      clOp,
      execOp>>

\* The weak reference the lambda takes from OwnerReference. The lambda holds
\* the runner by a raw pointer: run after the runner's destruction, it reads
\* the reference out of the destroyed object.
WeakReference(r) == IF r.alive THEN "valid" ELSE "indeterminate"

\* WeakReference.Pin(): a reference taken from the living runner pins while
\* the runner lives; one read from the destroyed object may or may not pin.
Pin(r, token, garbage) == IF token = "valid" THEN r.alive ELSE garbage

\* OnSourceControlOperationComplete with the outcome of the Pin.
OnSourceControlOperationComplete(r, pinned) ==
    IF pinned THEN [r EXCEPT !.bRefreshSpawned = FALSE] ELSE r

\* Run, from the wait on the stop event to the hand-over of the lambda.
RunnerWake ==
    /\ runner.pc = "Wait"
    /\ IF ~runner.bRunThread
       THEN runner' = [runner EXCEPT !.pc = "Exit"]
       ELSE IF runner.bRefreshSpawned
       THEN UNCHANGED runner
       ELSE /\ runner.issued < MaxRefreshes
            /\ runner' = [runner EXCEPT !.bRefreshSpawned = TRUE,
                                        !.task = "pending",
                                        !.Result = "none",
                                        !.issued = @ + 1,
                                        !.pc = "Await"]
    /\ UNCHANGED runnerOthers

\* Run, the test before the wait for the lambda's result.
RunnerAwait ==
    /\ runner.pc = "Await"
    /\ runner' = [runner EXCEPT !.pc = IF runner.bRefreshSpawned /\ runner.bRunThread
                                       THEN "Get" ELSE "Wait"]
    /\ UNCHANGED runnerOthers

\* Run, ExecuteResult.Get(): blocks until the main thread has run the lambda.
RunnerGet ==
    /\ runner.pc = "Get"
    /\ runner.task = "done"
    /\ runner' = [runner EXCEPT !.pc = "Check"]
    /\ UNCHANGED runnerOthers

\* Run, the second read of bRefreshSpawned.
RunnerCheck ==
    /\ runner.pc = "Check"
    /\ runner' = [runner EXCEPT !.pc = IF runner.bRefreshSpawned
                                       THEN "Mark" ELSE "Wait"]
    /\ UNCHANGED runnerOthers

\* Run, the write of bRefreshSpawned from the lambda's result.
RunnerMark ==
    /\ runner.pc = "Mark"
    /\ runner' = [runner EXCEPT !.bRefreshSpawned = (runner.Result = "Succeeded"),
                                !.pc = "Wait"]
    /\ UNCHANGED runnerOthers

\* The lambda on the main thread: bail out if the module is gone, else
\* ExecuteNoChangeList(Fetch with bUpdateStatus, Asynchronous, callback).
\* Execute answers a disabled provider with the callback at once; IssueCommand
\* queues the command, or without a thread pool runs it to its callback.
RefreshTask(loaded, enabled, result, garbage) ==
    /\ runner.task = "pending"
    /\ ~runner.killing
    /\ LET token == WeakReference(runner)
           called == OnSourceControlOperationComplete(runner,
                                                      Pin(runner, token, garbage))
       IN runner' =
            IF ~loaded
            THEN [runner EXCEPT !.task = "done", !.Result = "Failed"]
            ELSE IF ~enabled
            THEN [called EXCEPT !.task = "done", !.Result = "Failed"]
            ELSE IF GThreadPool
            THEN [runner EXCEPT !.task = "done", !.Result = "Succeeded",
                                !.queue = Append(@, token)]
            ELSE [called EXCEPT !.task = "done", !.Result = result]
    /\ UNCHANGED runnerOthers

\* Tick finds the runner's command processed, removes it from the queue and
\* runs its completion delegate.
RefreshComplete(garbage) ==
    /\ runner.queue # <<>>
    /\ ~runner.killing
    /\ LET called == OnSourceControlOperationComplete(runner,
                        Pin(runner, Head(runner.queue), garbage))
       IN runner' = [called EXCEPT !.queue = Tail(@)]
    /\ UNCHANGED runnerOthers

\* ~FGitLFSSourceControlRunner on the main thread: Thread->Kill() stops the
\* thread and waits until Run has returned.
RunnerKill ==
    /\ runner.alive
    /\ ~runner.killing
    /\ runner' = [runner EXCEPT !.bRunThread = FALSE, !.killing = TRUE]
    /\ UNCHANGED runnerOthers

\* The thread has ended: the destructor completes, the members are destroyed.
RunnerDestroyed ==
    /\ runner.killing
    /\ runner.pc = "Exit"
    /\ runner' = [runner EXCEPT !.alive = FALSE, !.killing = FALSE]
    /\ UNCHANGED runnerOthers

NextRunner ==
    \/ RunnerWake
    \/ RunnerAwait
    \/ RunnerGet
    \/ RunnerCheck
    \/ RunnerMark
    \/ \E loaded \in BOOLEAN, enabled \in BOOLEAN,
          result \in {"Succeeded", "Failed"}, garbage \in BOOLEAN :
          RefreshTask(loaded, enabled, result, garbage)
    \/ \E garbage \in BOOLEAN : RefreshComplete(garbage)
    \/ RunnerKill
    \/ RunnerDestroyed

\* The provider with its runner just created, with or without a thread pool.
InitRunner ==
    /\ GThreadPool \in BOOLEAN
    /\ bUsingGitLfsLocking = TRUE
    /\ CommandQueue = <<>>
    /\ Commands = [c \in CmdIds |-> BlankCommand]
    /\ nextCommand = 1
    /\ callbackOrder = <<>>
    /\ StateCache = EmptyMap
    /\ IgnoreForceCache = {}
    /\ LockedFiles = EmptyMap
    /\ ReadOnly = [f \in AllFiles |-> IsFileLFSLockable(f)]
    /\ syncCmd = 0
    /\ syncResult = [c \in CmdIds |-> "none"]
    /\ lastTick = NoTick
    /\ bPendingRestart = FALSE
    /\ UnlockFilesResult = "unset"
    /\ checkIn = NoCheckIn
    /\ OnDisk = AllFiles
    /\ IdleWorkers

SpecRunner == InitRunner /\ [][NextRunner]_vars

\* The runner's thread keeps running while it is not blocked, and the main
\* thread keeps running the tasks handed to it and keeps calling Tick.
FairSpecRunner ==
    /\ SpecRunner
    /\ WF_vars(RunnerWake)
    /\ WF_vars(RunnerAwait)
    /\ WF_vars(RunnerGet)
    /\ WF_vars(RunnerCheck)
    /\ WF_vars(RunnerMark)
    /\ WF_vars(\E loaded \in BOOLEAN, enabled \in BOOLEAN,
                  result \in {"Succeeded", "Failed"}, garbage \in BOOLEAN :
                  RefreshTask(loaded, enabled, result, garbage))
    /\ WF_vars(\E garbage \in BOOLEAN : RefreshComplete(garbage))
    /\ WF_vars(RunnerDestroyed)

----------------------------------------------------------------------------

\* FGitLFSSourceControlUtils::ParseFileStatusResult and
\* ParseDirectoryStatusResult, file by file

statusOthers ==
    <<GThreadPool, bUsingGitLfsLocking, CommandQueue, Commands, nextCommand,
      callbackOrder, StateCache, IgnoreForceCache, LockedFiles, ReadOnly, syncCmd,
      syncResult, lastTick, bPendingRestart, UnlockFilesResult, checkIn, revertVars,
      lockVars, lockOp, checkOut, sync, connectVars, gitStatus, view, batch,
      refreshOp, unlockOp, runner,
      remoteOp,
      cacheOp,
      clOp,
      execOp>>

\* The lines of the porcelain output the refresh meets: deleted, missing,
\* untracked, modified, added, and modified in both columns.
RefreshLines == {<<"D", " ">>, <<" ", "D">>, <<"?", "?">>, <<" ", "M">>,
                 <<"A", " ">>, <<"M", "M">>}

\* What GetAllLocks may answer about the files of the refresh.
RefreshLockMaps == {m \in LockMaps : DOMAIN m \subseteq AllFiles}

\* The state ParseFileStatusResult adds for a file of the command. found tells
\* whether the porcelain output has a line for it; FileState and TreeState
\* are its locals before the call of ParseGitStatus; locks is what GetAllLocks
\* answered.
FileStatusResult(File, found, Line, FileState, TreeState, exists, lfs, locks) ==
    LET parsed == IF found THEN ParseGitStatus(Line, FileState, TreeState)
                  ELSE [FileState |-> "Unknown",
                        TreeState |-> IF exists THEN "Unmodified" ELSE "NotInRepo"]
        locked == lfs /\ IsFileLFSLockable(File) /\ File \in DOMAIN locks
    IN [DefaultState EXCEPT !.FileState = parsed.FileState,
                            !.TreeState = parsed.TreeState,
                            !.LockState = StatusLockState(File, lfs, locks),
                            !.LockUser = IF locked THEN locks[File] ELSE ""]

\* The state ParseDirectoryStatusResult builds for a line of the porcelain
\* output whose file the command did not list.
DirectoryStatusState(File, Line, FileState, TreeState, lfs, locks) ==
    LET parsed == ParseGitStatus(Line, FileState, TreeState)
    IN [DefaultState EXCEPT !.FileState = parsed.FileState,
                            !.TreeState = parsed.TreeState,
                            !.LockState = IF ~lfs THEN "Unlockable" ELSE @]

\* ParseDirectoryStatusResult adds the state to the result.
DirectoryStatusAdded(st) ==
    st.FileState = "Deleted" \/ st.FileState = "Missing" \/ st.TreeState = "Untracked"

\* One round of the loop of ParseFileStatusResult.
ParseFileStatus(File, found, Line, FileState, TreeState, exists, lfs, locks) ==
    /\ ~statusOp.done
    /\ found \/ Line = <<" ", " ">>
    /\ found => Line \in RefreshLines
    /\ found => ~exists
    /\ ~found => (FileState = "Indeterminate" /\ TreeState = "Indeterminate")
    /\ statusOp' = [statusOp EXCEPT
           !.done = TRUE, !.added = TRUE, !.requested = TRUE, !.File = File,
           !.InUsingLfsLocking = lfs, !.LockedFiles = locks,
           !.State = FileStatusResult(File, found, Line, FileState, TreeState,
                                      exists, lfs, locks)]
    /\ UNCHANGED statusOthers

\* One round of the loop of ParseDirectoryStatusResult.
ParseDirectoryStatus(File, Line, FileState, TreeState, lfs, locks) ==
    /\ ~statusOp.done
    /\ LET st == DirectoryStatusState(File, Line, FileState, TreeState, lfs, locks)
       IN statusOp' = [statusOp EXCEPT
              !.done = TRUE, !.added = DirectoryStatusAdded(st), !.requested = FALSE,
              !.File = File, !.InUsingLfsLocking = lfs, !.LockedFiles = locks,
              !.State = st]
    /\ UNCHANGED statusOthers

\* The loop moves on to the next file.
NextStatusFile ==
    /\ statusOp.done
    /\ statusOp.index + 1 < MaxLines
    /\ statusOp' = [NoStatusOp EXCEPT !.index = statusOp.index + 1]
    /\ UNCHANGED statusOthers

NextStatus ==
    \/ \E File \in AllFiles, found \in BOOLEAN, Line \in RefreshLines \cup {<<" ", " ">>},
          FileState \in IndeterminateFileStates, TreeState \in IndeterminateTreeStates,
          exists \in BOOLEAN, lfs \in BOOLEAN, locks \in RefreshLockMaps :
          ParseFileStatus(File, found, Line, FileState, TreeState, exists, lfs, locks)
    \/ \E File \in AllFiles, Line \in RefreshLines,
          FileState \in IndeterminateFileStates, TreeState \in IndeterminateTreeStates,
          lfs \in BOOLEAN, locks \in RefreshLockMaps :
          ParseDirectoryStatus(File, Line, FileState, TreeState, lfs, locks)
    \/ NextStatusFile

SpecStatus == InitLocks /\ [][NextStatus]_vars

----------------------------------------------------------------------------

\* FGitLFSSourceControlUtils::CheckRemote, branch by branch

remoteOthers ==
    <<GThreadPool, bUsingGitLfsLocking, CommandQueue, Commands, nextCommand,
      callbackOrder, StateCache, IgnoreForceCache, LockedFiles, ReadOnly, syncCmd,
      syncResult, lastTick, UnlockFilesResult, checkIn, revertVars, lockVars, lockOp,
      checkOut, sync, connectVars, gitStatus, view, batch, refreshOp, unlockOp,
      runner, statusOp,
      cacheOp,
      clOp,
      execOp>>

\* The configured status branches and the upstream of the current branch.
StatusBranches == {"origin/main", "origin/release"}
CurrentUpstream == "origin/feature"

\* Paths a log may list, by their first directory: a lockable asset of the
\* project, a mergeable file, a binary, and a lockable asset of a plugin.
NewerBinary == [dir |-> "Binaries", stem |-> "Binaries/Win64/Game", ext |-> ".dll"]
NewerPluginAsset == [dir |-> "Plugins", stem |-> "Plugins/P/Content/p", ext |-> ".uasset"]
NewerPaths ==
    {[dir |-> "Content", stem |-> FileA.stem, ext |-> FileA.ext],
     [dir |-> "Config", stem |-> FileB.stem, ext |-> FileB.ext],
     NewerBinary, NewerPluginAsset}

\* FPaths::ConvertRelativePathToFull(RepositoryRoot, NewerFileName): the key
\* of the file in OutStates.
NewerFilePath(f) == [stem |-> f.stem, ext |-> f.ext]

\* bNewerFileMatches
NewerFileMatches(f) ==
    f.stem = ".checksum" \/ f.dir = "Binaries" \/ f.dir = "Plugins"

\* Whether a lockable file listed for a branch is entered into NewerFiles.
NewerFileRecorded_FirstOnly(bCurrentBranch, contained) == ~contained

NewerFileRecorded(bCurrentBranch, contained) == bCurrentBranch \/ ~contained

\* The loop over BranchesToDiff from position i on. reports[b] is the answer
\* of GetLog for branch b. The result is NewerFiles and the provider's
\* bPendingRestart.
RECURSIVE DiffBranches(_, _, _, _, _, _)
DiffBranches(order, i, remote, reports, newer, pending) ==
    IF i > Len(order) THEN [NewerFiles |-> newer, bPendingRestart |-> pending]
    ELSE LET Branch == order[i]
             bCurrentBranch == remote /\ Branch = CurrentUpstream
             Results == IF reports[Branch].ok THEN reports[Branch].files ELSE {}
             lockable == {f \in Results : IsFileLFSLockable(f)}
             added == {NewerFilePath(f) : f \in
                          {g \in lockable :
                              NewerFileRecorded(bCurrentBranch,
                                                NewerFilePath(g) \in DOMAIN newer)}}
             restart == bCurrentBranch /\
                        \E f \in Results \ lockable : NewerFileMatches(f)
         IN DiffBranches(order, i + 1, remote, reports,
                         [k \in DOMAIN newer \cup added |->
                             IF k \in added THEN Branch ELSE newer[k]],
                         pending \/ restart)

\* CheckRemote on the states of the files in OutStates.
CheckRemoteStates(order, remote, reports, OutStates, pending) ==
    LET CurrentBranchName == IF remote THEN CurrentUpstream ELSE ""
        d == IF order = <<>>
             THEN [NewerFiles |-> EmptyMap, bPendingRestart |-> pending]
             ELSE DiffBranches(order, 1, remote, reports, EmptyMap, pending)
    IN [NewerFiles |-> d.NewerFiles,
        bPendingRestart |-> d.bPendingRestart,
        OutStates |->
            [k \in DOMAIN OutStates |->
                IF k \in DOMAIN d.NewerFiles
                THEN [OutStates[k] EXCEPT
                         !.RemoteState = IF d.NewerFiles[k] = CurrentBranchName
                                         THEN "NotAtHead" ELSE "NotLatest",
                         !.HeadBranch = d.NewerFiles[k]]
                ELSE OutStates[k]]]

\* The orders in which a set of branches can be examined.
Orders(S) == {o \in [1..Cardinality(S) -> S] : \A b \in S : \E i \in DOMAIN o : o[i] = b}

\* What GetLog may answer for one branch: failure, no path, one path, or
\* the project's asset together with the binary.
LogReports ==
    {[ok |-> FALSE, files |-> {}]}
        \cup {[ok |-> TRUE, files |-> F] :
                 F \in {G \in SUBSET NewerPaths :
                           \/ Cardinality(G) <= 1
                           \/ G = {f \in NewerPaths : f.dir \in {"Content", "Binaries"}}}}

\* A worker calls CheckRemote after a status update produced OutStates.
CheckRemoteCall(remote, order, reports, files) ==
    /\ ~remoteOp.called
    /\ LET r == CheckRemoteStates(order, remote, reports,
                                  [f \in files |-> DefaultState], bPendingRestart)
       IN /\ remoteOp' = [called |-> TRUE, remote |-> remote, order |-> order,
                          reports |-> reports, before |-> files,
                          pendingBefore |-> bPendingRestart,
                          NewerFiles |-> r.NewerFiles, OutStates |-> r.OutStates,
                          bPendingRestart |-> r.bPendingRestart]
          /\ bPendingRestart' = r.bPendingRestart
    /\ UNCHANGED remoteOthers

NextRemote ==
    \E remote \in BOOLEAN :
       LET BranchesToDiff == IF remote THEN StatusBranches \cup {CurrentUpstream}
                             ELSE StatusBranches
       IN \E order \in Orders(BranchesToDiff), reports \in [BranchesToDiff -> LogReports],
             files \in SUBSET {FileA, NewerFilePath(NewerPluginAsset)} :
             CheckRemoteCall(remote, order, reports, files)

SpecRemote == InitLocks /\ [][NextRemote]_vars

----------------------------------------------------------------------------

\* FGitLFSSourceControlUtils::UpdateCachedStates and
\* FGitLFSSourceControlProvider::GetState on the State Cache

cacheOthers ==
    <<GThreadPool, bUsingGitLfsLocking, CommandQueue, Commands, nextCommand,
      callbackOrder, LockedFiles, ReadOnly, syncCmd, syncResult, lastTick,
      bPendingRestart, UnlockFilesResult, checkIn, revertVars, lockVars, lockOp,
      checkOut, sync, connectVars, gitStatus, view, batch, refreshOp, unlockOp,
      runner, statusOp, remoteOp,
      clOp,
      execOp>>

\* The deltas the workers stage for a file: every dimension may be Unset.
\* LockUser and HeadBranch are filled in whatever the dimensions are.
StagedDeltas ==
    [FileState : {"Unset", "Added", "Modified"},
     TreeState : {"Unset", "Untracked"},
     LockState : {"Unset", "Locked"},
     LockUser : {OtherUser},
     RemoteState : {"Unset", "NotAtHead"},
     HeadBranch : {"origin/main"}]

\* GetState with EStateCacheUsage::ForceUpdate: the paths handed to
\* UpdateStatus, those RemoveFileFromIgnoreForceCache did not find.
ForceUpdate_All(InFiles, ignore) == InFiles

ForceUpdate(InFiles, ignore) == {Path \in InFiles : Path \notin ignore}

\* A worker's UpdateStates merges the delta it staged for FileA.
UpdateCachedStatesCall(d) ==
    /\ LET old == GetStateInternal(StateCache, FileA)
           m == UpdateCachedStates([f \in {FileA} |-> d],
                                   [cache |-> StateCache, ignore |-> IgnoreForceCache])
       IN /\ StateCache' = m.cache
          /\ IgnoreForceCache' = m.ignore
          /\ cacheOp' = [op |-> "merge", skipped |-> SkipsMerge(old, d),
                         ignored |-> FileA \in IgnoreForceCache, forced |-> {},
                         sinceMerge |-> IF SkipsMerge(old, d) THEN cacheOp.sinceMerge
                                        ELSE 0,
                         gets |-> cacheOp.sinceMerge,
                         before |-> old, delta |-> d]
    /\ UNCHANGED cacheOthers

\* Provider::GetState({FileA}, ForceUpdate) on an enabled provider. A forced
\* path is refreshed by a synchronous UpdateStatus, whose state for the file,
\* if it produced one, is merged before GetState returns.
GetStateCall(status, d) ==
    /\ LET forced == ForceUpdate({FileA}, IgnoreForceCache)
           removed == [cache |-> StateCache, ignore |-> IgnoreForceCache \ {FileA}]
           m == IF forced # {} /\ status = "ok"
                THEN UpdateCachedStates([f \in forced |-> d], removed)
                ELSE removed
           old == GetStateInternal(StateCache, FileA)
           merged == forced # {} /\ status = "ok" /\ ~SkipsMerge(old, d)
       IN /\ forced = {} => (status = "ok" /\ d = NoCacheOp.delta)
          /\ status # "ok" => d = NoCacheOp.delta
          /\ StateCache' = [f \in DOMAIN m.cache \cup {FileA} |->
                               GetStateInternal(m.cache, f)]
          /\ IgnoreForceCache' = m.ignore
          /\ cacheOp' = [op |-> "get", skipped |-> FALSE,
                         ignored |-> FileA \in IgnoreForceCache, forced |-> forced,
                         sinceMerge |-> IF merged THEN 0
                                        ELSE IF cacheOp.sinceMerge \in {0, 1}
                                        THEN cacheOp.sinceMerge + 1
                                        ELSE cacheOp.sinceMerge,
                         gets |-> cacheOp.sinceMerge,
                         before |-> old, delta |-> d]
    /\ UNCHANGED cacheOthers

NextCache ==
    \/ \E d \in StagedDeltas : UpdateCachedStatesCall(d)
    \/ \E status \in {"ok", "other"}, d \in StagedDeltas \cup {NoCacheOp.delta} :
          GetStateCall(status, d)

SpecCache == InitLocks /\ [][NextCache]_vars

----------------------------------------------------------------------------

\* FGitLFSSourceControlUtils::UpdateChangelistStateByCommand and
\* FGitLFSSourceControlUtils::UpdateFileStagingOnSaved

changelistOthers ==
    <<GThreadPool, bUsingGitLfsLocking, CommandQueue, Commands, nextCommand,
      callbackOrder, IgnoreForceCache, LockedFiles, ReadOnly, syncCmd, syncResult,
      lastTick, bPendingRestart, UnlockFilesResult, checkIn, revertVars, lockVars,
      lockOp, checkOut, sync, connectVars, gitStatus, view, batch, refreshOp,
      unlockOp, runner, statusOp, remoteOp, cacheOp,
      execOp>>

\* The files 'git status --porcelain Content/' may report.
ContentFiles == {FileA, FileC}

\* A line of the porcelain output: the two status letters, a space and the
\* file name relative to the repository root. A file of the model stands
\* for the full path of that name.
PorcelainLines ==
    {[X |-> l[1], Y |-> l[2], stem |-> f.stem, ext |-> f.ext] :
        l \in {<<"A", " ">>, <<" ", "M">>}, f \in ContentFiles}

\* The outputs of one 'git status': at most MaxResults lines, no file twice.
MaxResults == 2

StatusResults ==
    {r \in UNION {[1..n -> PorcelainLines] : n \in 0..MaxResults} :
        \A i, j \in DOMAIN r : i # j => (r[i].stem # r[j].stem)}

\* FilenameFromGitStatus (RightChop(3)) followed by
\* FPaths::ConvertRelativePathToFull(RepositoryRoot, RelativeFilename).
GetFullPathFromGitStatus(Result) == [stem |-> Result.stem, ext |-> Result.ext]

\* A full path, as opposed to a porcelain line.
IsFullPath(k) == DOMAIN k = {"stem", "ext"}

ChangelistOf(cl, k) == IF k \in DOMAIN cl THEN cl[k] ELSE ""

\* UpdateFileStagingOnSaved on a provider with git available: the state of
\* Filename is looked up, and cached if absent, under the name as given;
\* 'git add' runs for a state of the Staged changelist.
UpdateFileStagingOnSaved(Filename, acc) ==
    [acc EXCEPT !.cache = GetState(acc.cache, {Filename}),
                !.added = IF ChangelistOf(acc.cl, Filename) = "Staged"
                          THEN acc.added \cup {Filename} ELSE acc.added]

\* One iteration of the loop of UpdateChangelistStateByCommand.
ChangelistOfResult(Result, acc) ==
    LET File == GetFullPathFromGitStatus(Result)
        a1 == [acc EXCEPT !.cache = GetState(acc.cache, {File})]
    IN IF Result.X # " "
       THEN LET a2 == UpdateFileStagingOnSaved(Result, a1)
            IN [a2 EXCEPT !.Working = a1.Working \ {File},
                          !.cl = [k \in DOMAIN a1.cl \cup {File} |->
                                     IF k = File THEN "Staged" ELSE a1.cl[k]],
                          !.Staged = a1.Staged \cup {File}]
       ELSE IF Result.Y # " "
       THEN [a1 EXCEPT !.Staged = a1.Staged \ {File},
                       !.cl = [k \in DOMAIN a1.cl \cup {File} |->
                                  IF k = File THEN "Working" ELSE a1.cl[k]],
                       !.Working = a1.Working \cup {File}]
       ELSE a1

RECURSIVE ChangelistLoop(_, _, _)
ChangelistLoop(Results, i, acc) ==
    IF i > Len(Results) THEN acc
    ELSE ChangelistLoop(Results, i + 1, ChangelistOfResult(Results[i], acc))

\* UpdateChangelistStateByCommand, run by the UpdateChangelistsStatus worker
\* and by every status refresh.
UpdateChangelistStateByCommand(available, Results) ==
    /\ ~available => Results = <<>>
    /\ LET acc == [cache |-> StateCache, cl |-> clOp.Changelist,
                   Staged |-> {}, Working |-> {}, added |-> {}]
           r == IF available THEN ChangelistLoop(Results, 1, acc)
                ELSE [acc EXCEPT !.Staged = clOp.Staged, !.Working = clOp.Working]
       IN /\ StateCache' = r.cache
          /\ clOp' = [op |-> "rebuild", ret |-> available, Changelist |-> r.cl,
                      Staged |-> r.Staged, Working |-> r.Working, added |-> r.added]
    /\ UNCHANGED changelistOthers

\* FGitLFSSourceControlProvider::OnPackageSaved
OnPackageSaved(available, Filename) ==
    /\ LET acc == [cache |-> StateCache, cl |-> clOp.Changelist,
                   Staged |-> clOp.Staged, Working |-> clOp.Working, added |-> {}]
           r == IF available THEN UpdateFileStagingOnSaved(Filename, acc) ELSE acc
       IN /\ StateCache' = r.cache
          /\ clOp' = [clOp EXCEPT !.op = "saved", !.ret = r.added # {},
                                  !.added = r.added]
    /\ UNCHANGED changelistOthers

NextChangelist ==
    \/ \E available \in BOOLEAN, Results \in StatusResults :
          UpdateChangelistStateByCommand(available, Results)
    \/ \E available \in BOOLEAN, Filename \in LockCacheFiles :
          OnPackageSaved(available, Filename)

SpecChangelist == InitLocks /\ [][NextChangelist]_vars

----------------------------------------------------------------------------

\* FGitLFSSourceControlProvider::Execute

executeOthers ==
    <<bPendingRestart, UnlockFilesResult, checkIn, revertVars, lockVars, lockOp,
      checkOut, sync, gitStatus, view, batch, refreshOp, unlockOp, runner, statusOp,
      remoteOp, cacheOp, clOp>>

\* The operations with a worker registered in WorkersMap that the model
\* issues, and the names of operations Execute may be called with.
WorkersMap == {"Connect", "CheckOut"}
OperationNames == WorkersMap \cup {"Unsupported"}

\* Lines 228-233: only Connect is let through while the provider is not
\* enabled.
RefusedWhileDisabled_None(enabled, OperationName) == FALSE

RefusedWhileDisabled(enabled, OperationName) ==
    ~enabled /\ OperationName # "Connect"

\* The calls Execute answers with Failed before it creates a command: the
\* delegate, if bound, is executed once with Failed.
ExecuteFailed(op, OperationName, bound) ==
    [execOp EXCEPT !.op = op, !.OperationName = OperationName, !.bound = bound,
                   !.ret = "Failed",
                   !.delegateCalls = IF bound THEN 1 ELSE 0,
                   !.delegateResult = IF bound THEN "Failed" ELSE "none",
                   !.created = FALSE, !.enqueued = FALSE]

\* Execute(InOperation, InFiles, InConcurrency, InOperationCompleteDelegate).
\* A command that is created is dispatched as the queue and the Connect
\* models describe; its result and its delegate call are theirs. At most
\* MaxCommands commands are created in all.
ProviderExecute(OperationName, bound, InConcurrency, files, lockOk, PathToGitBinary, remote) ==
    IF RefusedWhileDisabled(execOp.bGitRepositoryFound, OperationName)
    THEN /\ files = <<>> /\ lockOk /\ PathToGitBinary = "git" /\ remote = "n/a"
         /\ execOp' = ExecuteFailed("disabled", OperationName, bound)
         /\ UNCHANGED <<queueVars, connectVars, executeOthers>>
    ELSE IF OperationName \notin WorkersMap
    THEN /\ files = <<>> /\ lockOk /\ PathToGitBinary = "git" /\ remote = "n/a"
         /\ execOp' = ExecuteFailed("unsupported", OperationName, bound)
         /\ UNCHANGED <<queueVars, connectVars, executeOthers>>
    ELSE /\ bound
         /\ (nextCommand - 1) + (nextConnect - 1) < MaxCommands
         /\ IF OperationName = "Connect"
            THEN /\ files = <<>> /\ lockOk
                 /\ IssueConnect(InConcurrency, PathToGitBinary, remote)
                 /\ UNCHANGED queueVars
            ELSE /\ PathToGitBinary = "git" /\ remote = "n/a"
                 /\ IF InConcurrency = "Synchronous"
                    THEN IssueSynchronous(files, lockOk)
                    ELSE IssueAsynchronous(files, lockOk)
                 /\ UNCHANGED connectVars
         /\ execOp' = [execOp EXCEPT !.op = "issued", !.OperationName = OperationName,
                                     !.bound = bound, !.ret = "issued",
                                     !.delegateCalls = 0, !.delegateResult = "none",
                                     !.created = TRUE,
                                     !.enqueued = GThreadPool]
         /\ UNCHANGED executeOthers

NextExecute ==
    \/ \E OperationName \in OperationNames, bound \in BOOLEAN,
          InConcurrency \in {"Synchronous", "Asynchronous"},
          files \in QueueFileLists, lockOk \in BOOLEAN,
          PathToGitBinary \in {"git"}, remote \in {"n/a", "up", "down"} :
          ProviderExecute(OperationName, bound, InConcurrency, files, lockOk,
                          PathToGitBinary, remote)
    \/ \E c \in CmdIds, lockOk \in BOOLEAN : WorkerRun(c, lockOk)
    \/ \E c \in CmdIds : CancelOperation(c)
    \/ \E cb \in {"none", "enqueue"}, files \in QueueFileLists : Tick(cb, files)
    \/ SyncReturn
    \/ \E c \in ConnectIds, remote \in {"up", "down"} : ConnectThreadedWork(c, remote)
    \/ \E c \in ConnectIds : ConnectReturn(c)

\* The provider after Init(): CheckRepositoryStatus found a repository or
\* did not.
InitExecute ==
    /\ GThreadPool \in BOOLEAN
    /\ bUsingGitLfsLocking \in BOOLEAN
    /\ CommandQueue = <<>>
    /\ Commands = [c \in CmdIds |-> BlankCommand]
    /\ nextCommand = 1
    /\ callbackOrder = <<>>
    /\ StateCache = EmptyMap
    /\ IgnoreForceCache = {}
    /\ LockedFiles = EmptyMap
    /\ ReadOnly = [f \in AllFiles |-> IsFileLFSLockable(f)]
    /\ syncCmd = 0
    /\ syncResult = [c \in CmdIds |-> "none"]
    /\ lastTick = NoTick
    /\ bPendingRestart = FALSE
    /\ UnlockFilesResult = "unset"
    /\ checkIn = NoCheckIn
    /\ OnDisk = AllFiles
    /\ revert = NoRevert
    /\ now = Clock.start
    /\ LastUpdated = MinValue
    /\ LastRefresh = MinValue
    /\ lockCalls = [t \in LockThreads |-> IdleCall]
    /\ lastGetAllLocks = NoCall
    /\ lockOp = NoLockOp
    /\ checkOut = NoCheckOut
    /\ sync = NoSync
    /\ connects = [c \in ConnectIds |-> NoConnect]
    /\ nextConnect = 1
    /\ gitStatus = NoStatus
    /\ view = NoView
    /\ batch = NoBatch
    /\ refreshOp = NoRefresh
    /\ unlockOp = NoUnlock
    /\ runner = NewRunner
    /\ statusOp = NoStatusOp
    /\ remoteOp = NoRemoteOp
    /\ cacheOp = NoCacheOp
    /\ clOp = NoChangelistOp
    /\ \E found \in BOOLEAN : execOp = [NoExecuteOp EXCEPT !.bGitRepositoryFound = found]

SpecExecute == InitExecute /\ [][NextExecute]_vars

----------------------------------------------------------------------------

Init ==
    /\ GThreadPool \in BOOLEAN
    /\ bUsingGitLfsLocking \in BOOLEAN
    /\ CommandQueue = <<>>
    /\ Commands = [c \in CmdIds |-> BlankCommand]
    /\ nextCommand = 1
    /\ callbackOrder = <<>>
    /\ StateCache = EmptyMap
    /\ IgnoreForceCache = {}
    /\ LockedFiles = EmptyMap
    /\ ReadOnly = [f \in AllFiles |-> IsFileLFSLockable(f)]
    /\ syncCmd = 0
    /\ syncResult = [c \in CmdIds |-> "none"]
    /\ lastTick = NoTick
    /\ bPendingRestart = FALSE
    /\ UnlockFilesResult = "unset"
    /\ checkIn = NoCheckIn
    /\ OnDisk = AllFiles
    /\ IdleWorkers

Next ==
    \/ \E files \in QueueFileLists, lockOk \in BOOLEAN : ExecuteAsync(files, lockOk)
    \/ \E files \in QueueFileLists, lockOk \in BOOLEAN : ExecuteSync(files, lockOk)
    \/ \E c \in CmdIds, lockOk \in BOOLEAN : WorkerRun(c, lockOk)
    \/ \E c \in CmdIds : CancelOperation(c)
    \/ \E cb \in {"none", "enqueue"}, files \in QueueFileLists : Tick(cb, files)
    \/ SyncReturn

Spec == Init /\ [][Next]_vars

\* Every queued work item is eventually run by a pool thread, the engine (or
\* the wait loop of ExecuteSynchronousCommand) keeps calling Tick, and a
\* wait loop whose condition is false returns.
FairSpec ==
    /\ Spec
    /\ \A c \in CmdIds : WF_vars(\E lockOk \in BOOLEAN : WorkerRun(c, lockOk))
    /\ WF_vars(\E cb \in {"none", "enqueue"}, files \in QueueFileLists : Tick(cb, files))
    /\ WF_vars(SyncReturn)

----------------------------------------------------------------------------
\* Properties of the command queue

\* c was issued through Execute with EConcurrency::Asynchronous.
IsAsync(c) == Commands[c].issued /\ syncCmd # c /\ syncResult[c] = "none"

\* Position of c in the queue, 0 if absent.
QueuePos(q, c) == IF c \in Range(q) THEN Min({i \in DOMAIN q : q[i] = c}) ELSE 0

\* The step runs c's delegate or removes c from the queue.
TickHandles(c) ==
    /\ c \in Range(CommandQueue)
    /\ \/ c \notin Range(CommandQueue')
       \/ Commands'[c].delegateCalls # Commands[c].delegateCalls

\* C1 as stated: the completion callbacks of asynchronously issued commands
\* run in the order the commands were submitted, whatever order their
\* workers finish in.
C1_SubmissionOrder ==
    \A i, j \in DOMAIN callbackOrder :
        (i < j /\ IsAsync(callbackOrder[i]) /\ IsAsync(callbackOrder[j]))
            => callbackOrder[i] < callbackOrder[j]

\* C1 amended: a step of Tick that handles command b (runs its callback or
\* removes it) finds no command ahead of b in the queue that has finished or
\* was cancelled: B's callback precedes A's only while A is still running.
C1_TickHandlesFirstReady ==
    [][\A b \in CmdIds : TickHandles(b) =>
          \A i \in 1..(QueuePos(CommandQueue, b) - 1) :
              /\ ~Commands[CommandQueue[i]].bExecuteProcessed
              /\ ~Commands[CommandQueue[i]].bCancelled]_vars

\* A later command's callback has run while an earlier asynchronous command
\* is still queued, unfinished and not cancelled.
C1_Witness ==
    \E a, b \in CmdIds :
        /\ a < b /\ IsAsync(a) /\ IsAsync(b)
        /\ a \in Range(CommandQueue)
        /\ ~Commands[a].bExecuteProcessed /\ ~Commands[a].bCancelled
        /\ b \notin Range(CommandQueue)
        /\ Commands[b].delegateCalls = 1
        /\ lastTick.called = 1

\* C2: a call of Tick removes at most one completed command, runs at most
\* one worker's UpdateStates and invokes at most one completion callback.
C2_OnePerTick ==
    /\ lastTick.removed <= 1
    /\ lastTick.updated <= 1
    /\ lastTick.called <= 1

\* Tick ran with several finished commands queued and drained one of them.
C2_Witness ==
    /\ lastTick.finished >= 2
    /\ lastTick.removed = 1
    /\ lastTick.called = 1

\* Every worker has finished and every command has left the queue.
AllDrained ==
    /\ CommandQueue = <<>>
    /\ \A c \in CmdIds : Commands[c].issued => Commands[c].bExecuteProcessed

\* C3 as stated: once everything is drained, the callback of each command
\* that was not cancelled has run exactly once and the callback of a
\* cancelled command has never run.
C3_CallbacksMatchSubmissions ==
    AllDrained =>
        \A c \in CmdIds : Commands[c].issued =>
            Commands[c].delegateCalls = (IF Commands[c].bCancelled THEN 0 ELSE 1)

\* C4 as stated: the step of Tick that removes a cancelled command from the
\* queue leaves the State Cache as it was.
C4_CancelledSkipsDeltas ==
    [][\A c \in CmdIds :
          (/\ c \in Range(CommandQueue)
           /\ c \notin Range(CommandQueue')
           /\ Commands[c].bCancelled)
          => /\ StateCache' = StateCache
             /\ IgnoreForceCache' = IgnoreForceCache]_vars

\* C5 as stated: the step in which a worker's Execute runs on a pool thread
\* changes neither the State Cache nor the Lock Cache.
C5_WorkersLeaveCachesAlone ==
    [][\A c \in CmdIds :
          (/\ Commands[c].onPool
           /\ ~Commands[c].bExecuteProcessed
           /\ Commands'[c].bExecuteProcessed)
          => /\ StateCache' = StateCache
             /\ LockedFiles' = LockedFiles]_vars

\* C6 as stated: a synchronous Execute that has returned left its command
\* out of the queue, with its deltas applied and its callback run by Tick,
\* and returned Succeeded exactly when the worker's Execute returned true.
C6_ReturnsAfterDrain ==
    \A c \in CmdIds : syncResult[c] # "none" =>
        /\ c \notin Range(CommandQueue)
        /\ Commands[c].updated
        /\ Commands[c].delegateCalls = 1
        /\ (syncResult[c] = "Succeeded") <=> (Commands[c].ExecResult = "true")

\* The safety part of C6 amended: what holds of a synchronous Execute that
\* returned and whose command is not cancelled.
C6_NotCancelledReturnsAfterDrain ==
    \A c \in CmdIds : (syncResult[c] # "none" /\ ~Commands[c].bCancelled) =>
        /\ c \notin Range(CommandQueue)
        /\ Commands[c].updated
        /\ Commands[c].delegateCalls = 1
        /\ (syncResult[c] = "Succeeded") <=> (Commands[c].ExecResult = "true")
        /\ (syncResult[c] = "Failed") <=> (Commands[c].ExecResult = "false")

\* C6 amended: a synchronous Execute whose command is not cancelled returns
\* only after the command has left the queue (deltas applied, callback run
\* once) and returns Succeeded exactly when the worker's Execute returned
\* true; and, the workers finishing, every synchronous Execute returns.
C6_SyncExecute ==
    /\ []C6_NotCancelledReturnsAfterDrain
    /\ (syncCmd # 0) ~> (syncCmd = 0)

\* A synchronous Execute went through the thread pool and returned
\* Succeeded without having been cancelled.
C6_Witness ==
    \E c \in CmdIds :
        /\ syncResult[c] = "Succeeded"
        /\ Commands[c].onPool
        /\ ~Commands[c].bCancelled

----------------------------------------------------------------------------
\* Properties of FGitLFSCheckInWorker::Execute

PushInvoked == "push" \in Range(checkIn.trace)

\* The commit step (git add, then git commit) of a check-in with files failed.
CommitStepFailed == checkIn.ran /\ Len(checkIn.Files) > 0 /\ ~checkIn.bDoCommit

\* The push of the check-in was invoked and did not succeed.
PushFailed == checkIn.ran /\ PushInvoked /\ ~checkIn.pushOk

\* C7 as stated: a check-in whose commit succeeded but whose push did not
\* succeed still reports success.
C7_PushFailureReportsSuccess ==
    (checkIn.bDoCommit /\ PushFailed) => checkIn.ret

\* C7 amended: a check-in whose commit succeeded but whose push did not
\* succeed reports failure, unless the error lines collected during the
\* check-in are all "' is outside repository" lines, and there is one.
C7_PushFailureReportsFailure ==
    (checkIn.bDoCommit /\ PushFailed) =>
        (checkIn.ret <=> ("outside" \in checkIn.errors /\ checkIn.errors \ {"outside"} = {}))

\* A check-in committed, failed to push and reported failure.
C7_Witness == checkIn.bDoCommit /\ PushFailed /\ ~checkIn.ret

\* C8 as stated: when the commit step of a check-in with files fails, no
\* git push is invoked.
C8_CommitFailureSkipsPush == CommitStepFailed => ~PushInvoked

\* C8 amended: when the commit step of a check-in with files fails, the
\* check-in goes on as if no commit had been asked for: git push is invoked
\* exactly when listing the unpushed commits failed or listed a file.
C8_CommitFailureStillPushes ==
    CommitStepFailed =>
        (PushInvoked <=> (~checkIn.bDiffSuccess \/ checkIn.CommittedFiles # {}))

\* The commit step failed and git push was invoked all the same.
C8_Witness == CommitStepFailed /\ PushInvoked

\* C9 as stated: 'lfs unlock' runs, and files leave the Lock Cache, only
\* after a git push of the same check-in has succeeded.
C9_UnlockOnlyAfterPush ==
    (checkIn.ran /\ (checkIn.unlockRan \/ checkIn.pruned # {})) => checkIn.pushOk

\* C9 amended: 'lfs unlock' runs, and the unlock step prunes the Lock
\* Cache, only after the push of the check-in has succeeded or when there
\* was nothing to push; never when the push failed.
C9_UnlockOnlyWhenPushDidNotFail ==
    (checkIn.ran /\ (checkIn.unlockRan \/ checkIn.pruned # {})) =>
        \/ checkIn.pushOk
        \/ /\ ~PushInvoked
           /\ checkIn.bDiffSuccess
           /\ checkIn.CommittedFiles = {}

\* 'lfs unlock' ran after a successful push and the files left the Lock Cache.
C9_Witness ==
    /\ checkIn.ran /\ checkIn.pushOk
    /\ checkIn.unlockRan /\ checkIn.pruned # {}
    /\ checkIn.pruned \cap DOMAIN LockedFiles = {}

\* The files the claim expects to be unlocked.
LockableMarked ==
    {f \in checkIn.CommittedFiles \cup Range(checkIn.Files) : IsFileLFSLockable(f)}

\* The files of input \cup (lockable \cap committed) cached as Locked when
\* the unlock step runs: a commit that succeeded has dropped the input files
\* cached as Deleted.
LockedMarked ==
    {f \in Range(checkIn.Files)
           \cup {x \in checkIn.CommittedFiles : IsFileLFSLockable(x)} :
        /\ f \in DOMAIN checkIn.before
        /\ checkIn.before[f].LockState = "Locked"
        /\ ~(checkIn.bDoCommit /\ f \in Range(checkIn.Files)
             /\ IsDeleted(checkIn.before[f]))}

\* C10 as stated: after a successful push with LFS locking on, the files
\* passed to 'lfs unlock' are exactly lockable \cap (committed \cup input)
\* and no other file leaves the Lock Cache.
C10_UnlockSetIsLockable ==
    (checkIn.ran /\ bUsingGitLfsLocking /\ checkIn.pushOk) =>
        /\ checkIn.unlockArg = LockableMarked
        /\ checkIn.pruned \subseteq LockableMarked

\* C10 amended: after a successful push with LFS locking on, the files
\* handed to the unlock step are exactly the files of input \cup (lockable
\* \cap committed) that the State Cache holds as Locked, 'lfs unlock' runs
\* on no other set, and the unlock step prunes no other file.
C10_UnlockSetIsLocked ==
    (checkIn.ran /\ bUsingGitLfsLocking /\ checkIn.pushOk) =>
        /\ checkIn.unlockArg = LockedMarked
        /\ checkIn.unlockRan => checkIn.unlockArg # {}
        /\ checkIn.pruned \subseteq LockedMarked

\* After a successful push 'lfs unlock' ran on a set that holds a file of
\* no lockable type.
C10_Witness ==
    /\ checkIn.ran /\ bUsingGitLfsLocking /\ checkIn.pushOk
    /\ checkIn.unlockRan
    /\ FileB \in checkIn.unlockArg
    /\ FileB \in checkIn.pruned

\* The first push of the check-in failed and the line it left, if any, does
\* not match the staleness test.
NonStalePushFailure ==
    checkIn.ran /\ checkIn.pushed /\ checkIn.pushLine \in {"none", "other"}

Pushes == Len(SelectSeq(checkIn.trace, LAMBDA v : v = "push"))

StalePushFailure == checkIn.ran /\ checkIn.pushed /\ checkIn.pushLine = "stale"

\* The git invocations of the check-in from its first push to the unlock step.
PushPart ==
    SelectSeq(checkIn.trace, LAMBDA v : v \in {"push", "fetch", "pull"})

\* C25: when the first push fails with a line containing '[rejected]' with
\* 'non-fast-forward' or 'fetch first', or 'cannot lock ref', the worker runs
\* fetch, then pull_origin, then push again, in that order; the second push
\* is attempted only if the fetch and the pull both succeeded; the 'Git Pull
\* Required' dialog is shown exactly when the command is still unsuccessful
\* and the pending-restart flag is not set.
C25_RetryPath ==
    StalePushFailure =>
        /\ PushPart \in {<<"push", "fetch">>, <<"push", "fetch", "pull">>,
                         <<"push", "fetch", "pull", "push">>}
        /\ "pull" \in Range(PushPart) => checkIn.fetched
        /\ Pushes = 2 <=> (checkIn.fetched /\ checkIn.pulled)
        /\ checkIn.pulled => checkIn.fetched
        /\ checkIn.pushOk => Pushes = 2
        /\ checkIn.dialog = "Git Pull Required" <=> (~checkIn.pushOk /\ ~bPendingRestart)

\* The retry ran to its second push, which failed, and the dialog was shown.
C25_Witness ==
    /\ StalePushFailure
    /\ PushPart = <<"push", "fetch", "pull", "push">>
    /\ ~checkIn.pushOk
    /\ ~bPendingRestart
    /\ checkIn.dialog = "Git Pull Required"

----------------------------------------------------------------------------
\* The number of finished commands at or ahead of c in the queue q.
FinishedAhead(q, cmds, c) ==
    Cardinality({i \in 1..QueuePos(q, c) : cmds[q[i]].bExecuteProcessed})

\* C32 (as stated): a command whose worker has finished leaves the queue
\* within as many calls of Tick as there are finished commands at or ahead of
\* it, whatever unfinished or cancelled commands are ahead of it: every call
\* of Tick removes it or one of the finished commands ahead of it.
C32_FinishedDrains ==
    [][lastTick' # NoTick =>
          \A c \in Range(CommandQueue) :
              Commands[c].bExecuteProcessed =>
                  \/ c \notin Range(CommandQueue')
                  \/ FinishedAhead(CommandQueue', Commands', c)
                         < FinishedAhead(CommandQueue, Commands, c)]_vars

\* C39 (as stated): a synchronous Execute whose command was cancelled returns
\* Cancelled, never Succeeded, whatever the worker's own result is.
C39_CancelledSyncResult ==
    \A c \in CmdIds :
        (syncResult[c] # "none" /\ Commands[c].bCancelled) => syncResult[c] = "Cancelled"

\* Properties of the revert worker

\* C37: a revert of a non-empty file list changes the index only for its
\* input files: a file that is staged and not among the inputs is still
\* staged after the revert.
C37_OthersStayStaged ==
    (revert.ran /\ Len(revert.Files) > 0) =>
        \A f \in revert.Staged \ Range(revert.InFiles) : f \in revert.Index

\* A revert of a non-empty list whose retried checkout covers the file held
\* open, with 'git rm' and 'git reset' succeeding where they ran.
RevertOfHeldFile ==
    /\ revert.ran
    /\ Len(revert.Files) > 0
    /\ HeldFile \in revert.OtherThanAdded
    /\ revert.othersOk

\* C12: in a revert of a non-empty list that contains a file held open, when
\* 'git checkout' of the file first succeeds on attempt k <= 10 the worker
\* reports success, when it fails 10 times the worker reports failure, and
\* the retried checkout runs at most 10 times.
C12_RetriedCheckout ==
    RevertOfHeldFile =>
        /\ revert.firstOk <= Attempts => revert.ret
        /\ revert.firstOk > Attempts => ~revert.ret
        /\ revert.Attempts <= Attempts

\* The files of the State Cache a full revert concerns: missing (source
\* controlled, not deleted, gone from disk), added and present, or modified
\* or otherwise revertible (locked) and present.
AffectedUnion ==
    {f \in DOMAIN StateCache :
        \/ f \notin OnDisk /\ IsSourceControlled(StateCache[f]) /\ ~IsDeleted(StateCache[f])
        \/ f \in OnDisk /\ IsAdded(StateCache[f])
        \/ f \in OnDisk /\ (IsModified(StateCache[f]) \/ CanRevert(StateCache[f]))}

\* C13: a revert of an empty list runs 'git reset --hard', then
\* 'git clean -f -d', and after them refreshes the status of the missing,
\* added-existing and modified-or-locked files of the State Cache.
C13_FullRevert ==
    (revert.ran /\ revert.InFiles = <<>>) =>
        /\ Len(revert.trace) >= 2
        /\ revert.trace[1] = "reset --hard"
        /\ revert.trace[2] = "clean -f -d"
        /\ \A i \in DOMAIN revert.trace :
              revert.trace[i] \in {"reset --hard", "clean -f -d"} => i <= 2
        /\ revert.updated = AffectedUnion
        /\ AffectedUnion # {} => revert.trace[Len(revert.trace)] = "status"

\* A full revert whose reset failed still ran the clean, and refreshed a
\* missing file and a file present on disk.
C13_Witness ==
    /\ revert.ran
    /\ revert.InFiles = <<>>
    /\ ~revert.ret
    /\ revert.Missing # {}
    /\ revert.OtherThanAdded # {}
    /\ revert.updated = revert.Missing \cup revert.AllExisting \cup revert.OtherThanAdded
    /\ revert.trace[Len(revert.trace)] = "status"

----------------------------------------------------------------------------
\* Properties of the Lock Cache

\* A call of GetAllLocks with bInvalidateCache = false has just been made,
\* after a call whose remote query succeeded.
QueryAfterRefresh ==
    /\ lastGetAllLocks.step = "begin"
    /\ ~lastGetAllLocks.bInvalidateCache
    /\ LastRefresh # MinValue

\* C14: after a GetAllLocks call made at time t whose remote query
\* succeeded, a call with invalidate=false made no later than t + 30 s
\* returns the cached map and runs no subprocess, and a call made more than
\* 30 s after t queries the remote.
C14_CacheLimit ==
    QueryAfterRefresh =>
        /\ now <= LastRefresh + CacheLimit =>
              /\ ~lastGetAllLocks.bCacheExpired
              /\ lastGetAllLocks.subprocesses = 0
              /\ lastGetAllLocks.OutLocks = LockedFiles
        /\ now > LastRefresh + CacheLimit => lastGetAllLocks.bCacheExpired

\* C15: no step decreases LastUpdated, and a GetAllLocks whose remote query
\* failed leaves it unchanged.
C15_LastUpdatedNeverDecreases ==
    [][/\ LastUpdated' >= LastUpdated
       /\ (lastGetAllLocks'.step = "end" /\ lastGetAllLocks'.subprocesses > 1)
             => LastUpdated' = LastUpdated]_vars

C16_AttributeFollowsOwnLocks ==
    [][\A f \in LockCacheFiles :
          LET was == LockedBySelf(LockedFiles, f)
              is == LockedBySelf(LockedFiles', f)
          IN /\ ReadOnly'[f] # ReadOnly[f] => was # is
             /\ (~was /\ is) => ~ReadOnly'[f]
             /\ (was /\ ~is) => ReadOnly'[f]]_vars

----------------------------------------------------------------------------
\* Properties of the check-out worker

\* A check-out of files that were all lockable and all in the Lock Cache as
\* locked by lock_user.
CheckOutOfOwnLocks ==
    /\ checkOut.ran
    /\ Len(checkOut.Files) > 0
    /\ \A f \in Range(checkOut.Files) :
          IsFileLFSLockable(f) /\ LockedBySelf(checkOut.before, f)

\* C17: a check-out of a file the Lock Cache already has as locked by
\* lock_user runs no 'lfs lock' and reports success.
C17_NoSecondLock ==
    CheckOutOfOwnLocks => (checkOut.lfsLock = <<>> /\ checkOut.ret)

\* C28 (as stated): after a successful check-out with LFS locking on,
\* exactly the lockable input paths that were locked are in the Lock Cache
\* with owner lock_user and have a staged delta (Locked, lock_user, FileState
\* and TreeState Unset); non-lockable input paths are neither added to the
\* Lock Cache nor marked Locked; when 'lfs lock' fails nothing is added and
\* no delta is staged.
C28_OnlyLockablePathsLocked ==
    (checkOut.ran /\ Len(checkOut.Files) > 0 /\ bUsingGitLfsLocking) =>
        IF checkOut.ret
        THEN \A f \in Range(checkOut.Files) :
                IF f \in Range(checkOut.lfsLock)
                THEN /\ LockedBySelf(LockedFiles, f)
                     /\ f \in DOMAIN checkOut.States
                     /\ checkOut.States[f].LockState = "Locked"
                     /\ checkOut.States[f].LockUser = LockUser
                     /\ checkOut.States[f].FileState = "Unset"
                     /\ checkOut.States[f].TreeState = "Unset"
                ELSE /\ f \notin DOMAIN checkOut.States
                     /\ f \in DOMAIN LockedFiles => f \in DOMAIN checkOut.before
        ELSE /\ LockedFiles = checkOut.before
             /\ checkOut.States = EmptyMap

----------------------------------------------------------------------------
\* Properties of the sync worker

\* A sync ran with the pending-restart flag set.
SyncWhilePendingRestart == sync.ran /\ sync.bPendingRestart

C19_SyncConnectSkipsRemote ==
    \A c \in ConnectIds :
        (connects[c].issued /\ connects[c].result # "none") =>
            /\ connects[c].InConcurrency = "Synchronous" =>
                  (connects[c].lsRemote = "n/a" /\ connects[c].result = "Succeeded")
            /\ (connects[c].InConcurrency = "Asynchronous" /\ connects[c].PathToGitBinary # "") =>
                  /\ connects[c].lsRemote # "n/a"
                  /\ connects[c].result = "Succeeded" <=> connects[c].lsRemote = "up"


\* C20 (as stated): for every pair of status characters, ParseGitStatus
\* yields one defined FileState and one defined TreeState, and leaves neither
\* output unassigned: what the caller reads after the call is an enumerator
\* and does not depend on what its locals held before the call.
C20_ParseIsTotal ==
    gitStatus.parsed =>
        /\ gitStatus.FileState \in FileStates
        /\ gitStatus.TreeState \in TreeStates
        /\ \A FileState \in IndeterminateFileStates, TreeState \in IndeterminateTreeStates :
              ParseGitStatus(gitStatus.Line, FileState, TreeState) =
                 [FileState |-> gitStatus.FileState, TreeState |-> gitStatus.TreeState]

\* C21: status parsing follows the decision table. U in either column, 'AA'
\* and 'DD' give (Unmerged, Working); '??' (Unknown, Untracked); '!!'
\* (Unknown, Ignored); 'A ' (Added, Staged); 'D ' (Deleted, Staged); ' D'
\* (Missing, Working); 'M ' (Modified, Staged); ' M' (Modified, Working);
\* 'R ' (Renamed, Staged); 'C ' (Copied, Staged); a requested file without a
\* line gets (Unknown, Unmodified) if it exists and (Unknown, NotInRepo) if not.
C21_DecisionTable ==
    gitStatus.parsed =>
        LET l == gitStatus.Line
            r == <<gitStatus.FileState, gitStatus.TreeState>>
        IN  /\ (gitStatus.found /\ (l[1] = "U" \/ l[2] = "U" \/ l = <<"A", "A">> \/ l = <<"D", "D">>))
                  => r = <<"Unmerged", "Working">>
            /\ (gitStatus.found /\ l = <<"?", "?">>) => r = <<"Unknown", "Untracked">>
            /\ (gitStatus.found /\ l = <<"!", "!">>) => r = <<"Unknown", "Ignored">>
            /\ (gitStatus.found /\ l = <<"A", " ">>) => r = <<"Added", "Staged">>
            /\ (gitStatus.found /\ l = <<"D", " ">>) => r = <<"Deleted", "Staged">>
            /\ (gitStatus.found /\ l = <<" ", "D">>) => r = <<"Missing", "Working">>
            /\ (gitStatus.found /\ l = <<"M", " ">>) => r = <<"Modified", "Staged">>
            /\ (gitStatus.found /\ l = <<" ", "M">>) => r = <<"Modified", "Working">>
            /\ (gitStatus.found /\ l = <<"R", " ">>) => r = <<"Renamed", "Staged">>
            /\ (gitStatus.found /\ l = <<"C", " ">>) => r = <<"Copied", "Staged">>
            /\ (~gitStatus.found /\ gitStatus.exists) => r = <<"Unknown", "Unmodified">>
            /\ (~gitStatus.found /\ ~gitStatus.exists) => r = <<"Unknown", "NotInRepo">>

\* A line ' D' was parsed on the second line of the output, after a requested
\* file without a line.
C21_Witness ==
    /\ gitStatus.parsed
    /\ gitStatus.found
    /\ gitStatus.index = 1
    /\ gitStatus.Line = <<" ", "D">>
    /\ gitStatus.FileState = "Missing"

\* C22: the derived presentation state depends on FileState, TreeState,
\* LockState and RemoteState only, and follows the priority cascade:
\* NotAtHead, then LockedOther, then NotLatest, then FileState
\* Unmerged/Added/Deleted/Modified, then Untracked, then Locked (CheckedOut),
\* then Lockable or Unmodified for source-controlled files, otherwise None.
C22_PriorityCascade ==
    view.shown # "none" =>
        LET st == view.State
            remoteFirst == st.RemoteState = "NotAtHead"
            other == ~remoteFirst /\ st.LockState = "LockedOther"
            late == ~remoteFirst /\ ~other /\ st.RemoteState = "NotLatest"
            byFile == /\ ~remoteFirst /\ ~other /\ ~late
                      /\ st.FileState \in {"Unmerged", "Added", "Deleted", "Modified"}
            above == remoteFirst \/ other \/ late \/ byFile
            untracked == ~above /\ st.TreeState = "Untracked"
            locked == ~above /\ ~untracked /\ st.LockState = "Locked"
            rest == ~above /\ ~untracked /\ ~locked
            controlled == st.TreeState \notin {"Untracked", "Ignored", "NotInRepo"}
        IN  /\ remoteFirst => view.shown = "NotAtHead"
            /\ other => view.shown = "LockedOther"
            /\ late => view.shown = "NotLatest"
            /\ byFile => view.shown = st.FileState
            /\ untracked => view.shown = "Untracked"
            /\ locked => view.shown = "CheckedOut"
            /\ (rest /\ controlled) => view.shown \in {"Lockable", "Unmodified"}
            /\ (rest /\ ~controlled) => view.shown = "None"
            /\ \A user \in {"", LockUser, "bob"}, branch \in {"", "origin/main"} :
                  GetGitState([st EXCEPT !.LockUser = user, !.HeadBranch = branch])
                     = view.shown

\* GetGitState was asked about a file that is both behind the remote and
\* locked by someone else.
C22_Witness ==
    /\ view.State.RemoteState = "NotAtHead"
    /\ view.State.LockState = "LockedOther"
    /\ view.State.LockUser = "bob"
    /\ view.shown = "NotAtHead"

\* The file lists of the invocations, one after the other.
RECURSIVE BatchFiles(_)
BatchFiles(runs) ==
    IF runs = <<>> THEN <<>> ELSE runs[1].files \o BatchFiles(Tail(runs))

\* C23: a list of n > 50 files is run as ceil(n/50) invocations of at most
\* 50 files each, whose file lists concatenated in invocation order are the
\* original list; every batch runs even after an earlier one failed; the
\* result is success iff every batch returned the expected code; a list of at
\* most 50 files is one invocation.
C23_Batches ==
    batch.done =>
        LET n == Len(batch.InternalFiles) IN
        /\ n <= MaxFilesPerBatch =>
              batch.runs = <<[files |-> batch.InternalFiles, rc |-> batch.runs[1].rc]>>
        /\ n > MaxFilesPerBatch =>
              /\ Len(batch.runs) = (n + MaxFilesPerBatch - 1) \div MaxFilesPerBatch
              /\ \A i \in 1..Len(batch.runs) :
                    Len(batch.runs[i].files) \in 1..MaxFilesPerBatch
        /\ BatchFiles(batch.runs) = batch.InternalFiles
        /\ batch.ret <=> \A i \in 1..Len(batch.runs) :
                            batch.runs[i].rc = batch.InternalExpectedReturnCode

\* 101 files ran as three invocations, the first of which failed and the
\* last of which succeeded.
C23_Witness ==
    /\ batch.done
    /\ Len(batch.InternalFiles) = 2 * MaxFilesPerBatch + 1
    /\ Len(batch.runs) = 3
    /\ batch.runs[1].rc # batch.InternalExpectedReturnCode
    /\ batch.runs[3].rc = batch.InternalExpectedReturnCode
    /\ batch.runs[3].files = <<2 * MaxFilesPerBatch + 1>>
    /\ ~batch.ret

\* C24 (as stated): for a worker that performs a status refresh, every
\* "' is outside repository" line goes from the command's errors to its
\* infos, and if those lines were the command's only errors the operation is
\* reported as succeeded.
C24_OutsideRepositoryUpgrade ==
    (refreshOp.ran /\ refreshOp.refreshed) =>
        /\ "outside" \notin refreshOp.errors
        /\ refreshOp.infos = refreshOp.collected \cap {"outside"}
        /\ refreshOp.collected = {"outside"} => refreshOp.ret

\* C27 (as stated): every call of UnlockFiles with a non-empty file list
\* invokes 'lfs unlock' on those files, returns that invocation's result and
\* removes the files from the Lock Cache exactly when it succeeded, whatever
\* earlier calls did.
C27_EveryCallUnlocks ==
    (unlockOp.called /\ unlockOp.Files # {}) =>
        /\ unlockOp.invoked
        /\ unlockOp.ret <=> unlockOp.outcome = "ok"
        /\ unlockOp.pruned = IF unlockOp.outcome = "ok" THEN unlockOp.Files ELSE {}
        /\ unlockOp.ret => unlockOp.Files \cap DOMAIN LockedFiles = {}

\* C29 (as stated): every sync whose fetch succeeds, a sync of an empty file
\* list included, goes on to pull_origin, then the status refresh, then the
\* update of the commit id and summary, in that order; when the fetch fails
\* nothing runs after it and the sync reports failure.
C29_SyncSequence ==
    sync.ran =>
        IF sync.fetched
        THEN /\ Len(sync.trace) >= 3
             /\ sync.trace[1] = "fetch"
             /\ sync.trace[Len(sync.trace) - 1] = "status"
             /\ sync.trace[Len(sync.trace)] = "log"
        ELSE /\ sync.trace = <<"fetch">>
             /\ ~sync.ret

\* C30 (as stated): the background runner never has more than one of its
\* refresh operations in flight; a wake hands over a refresh only when
\* bRefreshSpawned is clear; and once the runner is destroyed the completion
\* callback leaves the runner's state alone.
C30_SingleRefresh ==
    [][/\ Len(runner'.queue) <= 1
       /\ (runner'.issued # runner.issued => ~runner.bRefreshSpawned)
       /\ (~runner.alive => runner'.bRefreshSpawned = runner.bRefreshSpawned)]_vars

\* C31 (as stated): under fair scheduling, once no refresh of the running
\* runner is in flight any more, bRefreshSpawned is eventually false, so that
\* a later wake can spawn a refresh: no interleaving of the completion
\* callback with Run's write of the Execute result leaves the flag set.
C31_FlagEventuallyClear ==
    (runner.bRefreshSpawned /\ runner.queue = <<>> /\ runner.task = "done")
        ~> (~runner.bRefreshSpawned \/ ~runner.bRunThread)

\* C33 (as stated): every file state a status refresh produces has LockState
\* Unlockable when LFS locking is off or the file's type is not lockable,
\* else NotLocked when the path has no lock, Locked when its owner is the
\* lock user, LockedOther with the holder as LockUser otherwise; none of
\* them, the states of deleted, missing or untracked files found only in the
\* porcelain output included, is left with LockState Unknown.
C33_LockStateAssigned ==
    (statusOp.done /\ statusOp.added) =>
        LET f == statusOp.File
            st == statusOp.State
            locks == statusOp.LockedFiles
        IN  /\ st.LockState # "Unknown"
            /\ IF ~statusOp.InUsingLfsLocking \/ ~IsFileLFSLockable(f)
               THEN st.LockState = "Unlockable"
               ELSE IF f \notin DOMAIN locks THEN st.LockState = "NotLocked"
               ELSE IF locks[f] = LockUser THEN st.LockState = "Locked"
               ELSE st.LockState = "LockedOther" /\ st.LockUser = locks[f]

\* Branch b reported the file with key k as newer.
Reports(b, k) ==
    /\ remoteOp.reports[b].ok
    /\ \E f \in remoteOp.reports[b].files : NewerFilePath(f) = k

\* C34: a lockable file that some examined branch reports as newer gets
\* RemoteState NotAtHead and HeadBranch = the current upstream whenever the
\* current upstream reports it, in whatever order the branches are examined;
\* otherwise NotLatest and HeadBranch = the first branch examined that
\* reports it. bPendingRestart is set only when the current upstream lists a
\* path that is not lockable and is '.checksum' or under Binaries/ or Plugins/.
C34_StrongestSignal ==
    remoteOp.called =>
        /\ \A k \in DOMAIN remoteOp.OutStates :
              LET st == remoteOp.OutStates[k]
                  reporting == {i \in DOMAIN remoteOp.order : Reports(remoteOp.order[i], k)}
              IN (IsFileLFSLockable(k) /\ reporting # {}) =>
                    IF remoteOp.remote /\ Reports(CurrentUpstream, k)
                    THEN st.RemoteState = "NotAtHead" /\ st.HeadBranch = CurrentUpstream
                    ELSE /\ st.RemoteState = "NotLatest"
                         /\ st.HeadBranch = remoteOp.order[Min(reporting)]
        /\ (remoteOp.bPendingRestart /\ ~remoteOp.pendingBefore) =>
              /\ remoteOp.remote
              /\ remoteOp.reports[CurrentUpstream].ok
              /\ \E f \in remoteOp.reports[CurrentUpstream].files :
                    ~IsFileLFSLockable(f) /\ NewerFileMatches(f)

\* A status branch examined first and the current upstream both reported the
\* file; it is NotAtHead.
C34_Witness ==
    /\ remoteOp.called
    /\ remoteOp.remote
    /\ remoteOp.order[1] = "origin/main"
    /\ Reports("origin/main", FileA)
    /\ Reports(CurrentUpstream, FileA)
    /\ FileA \in DOMAIN remoteOp.OutStates
    /\ remoteOp.OutStates[FileA].RemoteState = "NotAtHead"

\* C35: when UpdateCachedStates merges a delta, every dimension the delta
\* leaves Unset keeps its cached value, LockUser changes only when the
\* delta's LockState is set, and a delta with FileState Added for a file
\* whose cached state is neither unknown nor addable leaves the cached state
\* of the file as it was.
C35_UnsetKeepsCached ==
    cacheOp.op = "merge" =>
        LET old == cacheOp.before
            d == cacheOp.delta
            new == StateCache[FileA]
        IN  /\ d.FileState = "Unset" => new.FileState = old.FileState
            /\ d.TreeState = "Unset" => new.TreeState = old.TreeState
            /\ d.LockState = "Unset" => new.LockState = old.LockState
            /\ d.RemoteState = "Unset" =>
                  (new.RemoteState = old.RemoteState /\ new.HeadBranch = old.HeadBranch)
            /\ new.LockUser # old.LockUser => d.LockState # "Unset"
            /\ (d.FileState = "Added" /\ ~IsUnknown(old) /\ ~CanAdd(old)) => new = old

\* A delta that sets only the tree state was merged into a cached state that
\* was locked and not at head; and an Added delta met a modified file.
C35_Witness ==
    /\ cacheOp.op = "merge"
    /\ cacheOp.delta.FileState = "Added"
    /\ cacheOp.delta.LockState = "Locked"
    /\ cacheOp.before.FileState = "Modified"
    /\ cacheOp.before.TreeState = "NotInRepo"
    /\ cacheOp.before.LockState = "Unknown"
    /\ StateCache[FileA] = cacheOp.before

\* C36: after a delta for a path was merged, the next forced GetState of the
\* path takes it out of the ignore-force set and runs no UpdateStatus for
\* it, and the forced GetState after that runs one; a path that is not in
\* the ignore-force set is always force-updated.
C36_IgnoreForceOnce ==
    /\ (cacheOp.op = "merge" /\ ~cacheOp.skipped) => FileA \in IgnoreForceCache
    /\ cacheOp.op = "get" =>
          /\ cacheOp.gets = 0 => (cacheOp.forced = {} /\ cacheOp.ignored)
          /\ cacheOp.gets = 1 => cacheOp.forced = {FileA}
          /\ ~cacheOp.ignored => cacheOp.forced = {FileA}
          /\ (cacheOp.forced = {}) => FileA \notin IgnoreForceCache

\* The second forced GetState after a merge ran an UpdateStatus.
C36_Witness ==
    /\ cacheOp.op = "get"
    /\ cacheOp.gets = 1
    /\ cacheOp.forced = {FileA}

\* C38: every key of the State Cache is a full file path at all times: no
\* status refresh, changelist rebuild or package-saved hook caches a state
\* under a relative path or under a raw line of the porcelain output.
C38_AbsoluteKeys == \A k \in DOMAIN StateCache : IsFullPath(k)

\* C40: while the provider is not enabled, Execute of an operation other
\* than Connect returns Failed, calls the completion delegate exactly once,
\* with Failed, and neither creates nor enqueues a command; an operation
\* without a registered worker fails the same way.
C40_RefusedExecute ==
    /\ (execOp.op # "none" /\ ~execOp.bGitRepositoryFound
          /\ execOp.OperationName # "Connect") => execOp.op = "disabled"
    /\ (execOp.op # "none" /\ execOp.OperationName \notin WorkersMap)
          => execOp.op \in {"disabled", "unsupported"}
    /\ execOp.op \in {"disabled", "unsupported"} =>
          /\ execOp.ret = "Failed"
          /\ execOp.bound => (execOp.delegateCalls = 1 /\ execOp.delegateResult = "Failed")
          /\ ~execOp.bound => execOp.delegateCalls = 0
          /\ ~execOp.created
          /\ ~execOp.enqueued
    /\ ~execOp.bGitRepositoryFound =>
          /\ CommandQueue = <<>>
          /\ \A c \in CmdIds : ~Commands[c].issued

\* A disabled provider refused a CheckOut whose delegate was bound, while a
\* Connect issued before is in flight.
C40_Witness ==
    /\ execOp.op = "disabled"
    /\ execOp.OperationName = "CheckOut"
    /\ execOp.bound
    /\ execOp.delegateCalls = 1
    /\ connects[1].issued

====
